------------------------- MODULE GuestMemoryProofs -------------------------
(***************************************************************************)
(* Theorems about GuestMemory, for every page size, layout, image and      *)
(* guest call.                                                             *)
(***************************************************************************)
EXTENDS GuestMemory, GapSearch, FiniteSetTheorems, TLAPS

-----------------------------------------------------------------------------
(* Rounding.  AlignDown and AlignUp give integers around their argument,   *)
(* and rounding a positive size up leaves it positive.                     *)
LEMMA DivBounds ==
  ASSUME NEW a \in Int, NEW n \in Nat \ {0}
  PROVE  /\ a \div n \in Int
         /\ (a \div n) * n <= a
         /\ a < (a \div n) * n + n
BY SMT

LEMMA Rounding ==
  ASSUME NEW a \in Int, NEW n \in Nat \ {0}
  PROVE  /\ AlignDown(a, n) \in Int /\ AlignUp(a, n) \in Int
         /\ AlignDown(a, n) <= a /\ a <= AlignUp(a, n)
         /\ a \in Nat => AlignDown(a, n) \in Nat
<1>1. a + n - 1 \in Int
  OBVIOUS
<1>2. QED
  BY <1>1, DivBounds DEF AlignDown, AlignUp

LEMMA RoundUpPositive ==
  ASSUME NEW a \in Nat \ {0}, NEW n \in Nat \ {0}
  PROVE  AlignUp(a, n) \in Nat \ {0}
BY Rounding
-----------------------------------------------------------------------------
(* Ledgers, and the three parts of the memory, that are well typed.        *)
LedgerOK(L) == L \subseteq Regions /\ \A r \in L : End(r) \in Addr

BackendOK(B) ==
  DOMAIN B \subseteq Pages /\ \A p \in DOMAIN B : B[p] \in Perms

TrackerOK(T) == T \subseteq [addr : Addr, size : Addr \ {0}]

MemOK(m) == LedgerOK(m.ledger) /\ BackendOK(m.backend) /\ TrackerOK(m.tracker)

RequestOK(req) ==
  req.size \in Nat /\ req.perms \in Perms /\ req.mode \in Modes
    /\ req.usage \in Usages

(* A planned region is well typed and shares no address with the ledger,   *)
(* whatever the gap search returned.                                       *)
LEMMA PlanSound ==
  ASSUME NEW L, NEW req, RequestOK(req), NEW r \in Plan(L, req)
  PROVE  /\ r \in Regions /\ End(r) \in Addr
         /\ Vacant(L, r.addr, r.size)
<1> DEFINE size == AlignUp(req.size, PageSize)
<1>1. PICK a \in Addr :
        /\ r = [addr |-> a, size |-> size, perms |-> req.perms,
                mode |-> req.mode, usage |-> req.usage]
        /\ req.size > 0 /\ a + size \in Addr /\ Vacant(L, a, size)
  BY DEF Plan
<1>2. size \in Nat \ {0}
  BY <1>1, RoundUpPositive, PageAssumption DEF RequestOK
<1>3. size \in Addr \ {0}
  BY <1>1, <1>2, PageAssumption DEF Addr
<1>4. QED
  BY <1>1, <1>3 DEF Regions, End, RequestOK

(* A vacant range disturbs no region: adding one keeps a ledger disjoint.  *)
LEMMA AddVacant ==
  ASSUME NEW L, LedgerOK(L), Disjoint(L), NEW r \in Regions, End(r) \in Addr,
         Vacant(L, r.addr, r.size)
  PROVE  /\ LedgerOK(L \cup {r}) /\ Disjoint(L \cup {r})
         /\ r \notin L
<1>1. Addr \subseteq Int
  BY PageAssumption DEF Addr
<1>2. \A s \in L : ~Overlaps(s, r.addr, r.size) /\ ~Overlaps(r, s.addr, s.size)
  BY <1>1 DEF Vacant, Overlaps, End, LedgerOK, Regions
<1>3. Overlaps(r, r.addr, r.size)
  BY <1>1, PageAssumption DEF Overlaps, End, Regions, Addr
<1>4. QED
  BY <1>2, <1>3 DEF Disjoint, LedgerOK
-----------------------------------------------------------------------------
(* s is a part of r: same identity, and inside it.                         *)
PartOf(s, r) ==
  /\ r.addr <= s.addr /\ End(s) <= End(r)
  /\ s.mode = r.mode /\ s.usage = r.usage

(* Moving and resizing a region changes nothing else.                      *)
LEMMA Resize ==
  ASSUME NEW r \in Regions, NEW a \in Addr, NEW n \in Addr \ {0}
  PROVE  /\ Piece(r, a, n) \in Regions
         /\ Piece(r, a, n).addr = a /\ Piece(r, a, n).size = n
         /\ Piece(r, a, n).perms = r.perms /\ Piece(r, a, n).mode = r.mode
         /\ Piece(r, a, n).usage = r.usage
BY DEF Regions, Piece

(* The pieces rewrite_covering_range and remove_covering_range keep are    *)
(* well typed parts of the region they were cut from, on their side of the *)
(* range.                                                                  *)
LEMMA BelowSound ==
  ASSUME NEW r \in Regions, End(r) \in Addr, NEW addr \in Nat, addr < End(r),
         NEW s \in Below(r, addr)
  PROVE  /\ s \in Regions /\ End(s) \in Addr
         /\ PartOf(s, r) /\ End(s) = addr /\ s.perms = r.perms
<1>1. r.addr < addr /\ s = Piece(r, r.addr, addr - r.addr)
  BY DEF Below
<1>2. r.addr \in Addr /\ addr - r.addr \in Addr \ {0}
  BY <1>1, PageAssumption DEF Regions, Addr, End
<1>3. /\ s \in Regions /\ s.addr = r.addr /\ s.size = addr - r.addr
      /\ s.perms = r.perms /\ s.mode = r.mode /\ s.usage = r.usage
  BY <1>1, <1>2, Resize
<1>4. r.addr \in Int /\ r.size \in Int
  BY PageAssumption DEF Regions, Addr
<1>5. QED
  BY <1>3, <1>4, PageAssumption DEF Addr, End, PartOf

LEMMA AboveSound ==
  ASSUME NEW r \in Regions, End(r) \in Addr, NEW end \in Nat, r.addr < end,
         NEW s \in Above(r, end)
  PROVE  /\ s \in Regions /\ End(s) \in Addr
         /\ PartOf(s, r) /\ s.addr = end /\ s.perms = r.perms
<1> DEFINE left == End(r) - end
<1>1. end < End(r) /\ s = Piece(r, end, left)
  BY DEF Above
<1>2. end \in Addr /\ left \in Addr \ {0}
  BY <1>1, PageAssumption DEF Regions, Addr, End
<1> HIDE DEF left
<1>3. /\ s \in Regions /\ s.addr = end /\ s.size = left
      /\ s.perms = r.perms /\ s.mode = r.mode /\ s.usage = r.usage
  BY <1>1, <1>2, Resize
<1>4. r.addr \in Int /\ r.size \in Int
  BY PageAssumption DEF Regions, Addr
<1>5. QED
  BY <1>3, <1>4, PageAssumption DEF Addr, End, PartOf, left

LEMMA InsideSound ==
  ASSUME NEW r \in Regions, End(r) \in Addr, NEW addr \in Nat,
         NEW size \in Nat \ {0}, Overlaps(r, addr, size)
  PROVE  LET s == Inside(r, addr, addr + size)
         IN  /\ s \in Regions /\ End(s) \in Addr /\ PartOf(s, r)
             /\ addr <= s.addr /\ End(s) <= addr + size
<1> DEFINE lo == IF addr < r.addr THEN r.addr ELSE addr
           hi == IF End(r) < addr + size THEN End(r) ELSE addr + size
<1>1. lo \in Addr /\ hi - lo \in Addr \ {0}
  BY PageAssumption DEF Regions, Addr, End, Overlaps
<1>2. Inside(r, addr, addr + size) = Piece(r, lo, hi - lo)
  BY DEF Inside
<1> HIDE DEF lo, hi
<1> DEFINE s == Inside(r, addr, addr + size)
<1>3. /\ s \in Regions /\ s.addr = lo /\ s.size = hi - lo
      /\ s.mode = r.mode /\ s.usage = r.usage
  BY <1>1, <1>2, Resize
<1>4. r.addr \in Int /\ r.size \in Int
  BY PageAssumption DEF Regions, Addr
<1> HIDE DEF s
<1>5. s \in Regions /\ End(s) \in Addr /\ PartOf(s, r)
        /\ addr <= s.addr /\ End(s) <= addr + size
  BY <1>3, <1>4, PageAssumption DEF Addr, End, PartOf, lo, hi
<1>6. QED
  BY <1>5 DEF s

(* s is r untouched, or the piece of r on one side of the range.           *)
CutFrom(s, r, addr, size) ==
  \/ s = r /\ ~Overlaps(r, addr, size)
  \/ Overlaps(r, addr, size) /\ s \in Below(r, addr) /\ End(s) = addr
  \/ Overlaps(r, addr, size) /\ s \in Above(r, addr + size) /\ s.addr = addr + size

(* Every region left by Carve is a part of one it was cut from, and the    *)
(* two sides of the range are apart.                                       *)
LEMMA CarveParts ==
  ASSUME NEW L, LedgerOK(L), NEW addr \in Nat, NEW size \in Nat \ {0},
         NEW s \in Carve(L, addr, size)
  PROVE  \E r \in L :
           /\ s \in Regions /\ End(s) \in Addr /\ PartOf(s, r)
           /\ s.perms = r.perms
           /\ CutFrom(s, r, addr, size)
<1>1. CASE s \in L /\ ~Overlaps(s, addr, size)
  BY <1>1, PageAssumption DEF LedgerOK, PartOf, Regions, Addr, End, CutFrom
<1>2. CASE \E r \in Touched(L, addr, size) : s \in Below(r, addr)
  <2>1. PICK r \in L : Overlaps(r, addr, size) /\ s \in Below(r, addr)
    BY <1>2 DEF Touched
  <2>2. r \in Regions /\ End(r) \in Addr /\ addr < End(r)
    BY <2>1 DEF LedgerOK, Overlaps
  <2>3. QED
    BY <2>1, <2>2, BelowSound DEF CutFrom
<1>3. CASE \E r \in Touched(L, addr, size) : s \in Above(r, addr + size)
  <2>1. PICK r \in L : Overlaps(r, addr, size) /\ s \in Above(r, addr + size)
    BY <1>3 DEF Touched
  <2>2. r \in Regions /\ End(r) \in Addr /\ r.addr < addr + size
    BY <2>1 DEF LedgerOK, Overlaps
  <2>3. addr + size \in Nat
    OBVIOUS
  <2>4. QED
    BY <2>1, <2>2, <2>3, AboveSound DEF CutFrom
<1>4. QED
  BY <1>1, <1>2, <1>3 DEF Carve

(* It has the permissions of the region it is a part of.                   *)
CutOff(s, L) == \E r \in L : s \in Regions /\ PartOf(s, r) /\ s.perms = r.perms

LEMMA CarvedFrom ==
  ASSUME NEW L, LedgerOK(L), NEW addr \in Nat, NEW size \in Nat \ {0},
         NEW s \in Carve(L, addr, size)
  PROVE  CutOff(s, L)
<1>1. PICK r \in L : /\ s \in Regions /\ End(s) \in Addr /\ PartOf(s, r)
                    /\ s.perms = r.perms
                    /\ CutFrom(s, r, addr, size)
  BY CarveParts
<1> QED BY <1>1 DEF CutOff

(* Cutting a range out of a ledger keeps it well typed and disjoint and    *)
(* leaves the range vacant.                                                *)
LEMMA CarveSound ==
  ASSUME NEW L, LedgerOK(L), Disjoint(L), NEW addr \in Nat,
         NEW size \in Nat \ {0}
  PROVE  /\ LedgerOK(Carve(L, addr, size)) /\ Disjoint(Carve(L, addr, size))
         /\ Vacant(Carve(L, addr, size), addr, size)
<1>1. LedgerOK(Carve(L, addr, size))
  BY CarveParts DEF LedgerOK
<1>2. ASSUME NEW s \in Carve(L, addr, size)
      PROVE  ~Overlaps(s, addr, size)
  <2>1. PICK r \in L : s \in Regions /\ CutFrom(s, r, addr, size)
    BY CarveParts
  <2>2. QED
    BY <2>1, PageAssumption DEF Overlaps, End, Regions, Addr, CutFrom
<1>3. ASSUME NEW s \in Carve(L, addr, size), NEW t \in Carve(L, addr, size), s # t
      PROVE  ~Overlaps(s, t.addr, t.size)
  <2>1. PICK q \in L :
          s \in Regions /\ PartOf(s, q) /\ CutFrom(s, q, addr, size)
    BY CarveParts
  <2>2. PICK r \in L :
          t \in Regions /\ PartOf(t, r) /\ CutFrom(t, r, addr, size)
    BY CarveParts
  <2>3. q \in Regions /\ r \in Regions
    BY DEF LedgerOK
  <2>4. CASE q = r
    <3>1. ~(s \in Below(r, addr) /\ t \in Below(r, addr))
      BY <1>3 DEF Below
    <3>2. ~(s \in Above(r, addr + size) /\ t \in Above(r, addr + size))
      BY <1>3 DEF Above
    <3>3. \/ End(s) = addr /\ t.addr = addr + size
          \/ End(t) = addr /\ s.addr = addr + size
      BY <1>3, <2>1, <2>2, <2>4, <3>1, <3>2 DEF CutFrom
    <3>4. QED
      BY <2>1, <2>2, <3>3, PageAssumption DEF Overlaps, End, Regions, Addr
  <2>5. CASE q # r
    <3>1. ~Overlaps(q, r.addr, r.size)
      BY <2>5 DEF Disjoint
    <3>2. QED
      BY <2>1, <2>2, <2>3, <3>1, PageAssumption
         DEF Overlaps, End, Regions, Addr, PartOf
  <2>6. QED
    BY <2>4, <2>5
<1>4. QED
  BY <1>1, <1>2, <1>3 DEF Vacant, Disjoint
(* What Rewrite adds to the carved ledger: parts of the touched regions,   *)
(* inside the range, with the new permissions.                             *)
LEMMA NewParts ==
  ASSUME NEW L, LedgerOK(L), NEW addr \in Nat, NEW size \in Nat \ {0},
         NEW perms \in Perms, NEW r \in Touched(L, addr, size)
  PROVE  LET s == WithPerms(Inside(r, addr, addr + size), perms)
         IN  /\ s \in Regions /\ End(s) \in Addr /\ PartOf(s, r)
             /\ addr <= s.addr /\ End(s) <= addr + size /\ s.perms = perms
<1> DEFINE t == Inside(r, addr, addr + size)
           s == WithPerms(t, perms)
<1>1. r \in Regions /\ End(r) \in Addr /\ Overlaps(r, addr, size)
  BY DEF Touched, LedgerOK
<1>2. /\ t \in Regions /\ End(t) \in Addr /\ PartOf(t, r)
      /\ addr <= t.addr /\ End(t) <= addr + size
  BY <1>1, InsideSound
<1> HIDE DEF t
<1>3. /\ s \in Regions /\ s.addr = t.addr /\ s.size = t.size
      /\ s.mode = t.mode /\ s.usage = t.usage /\ s.perms = perms
  BY <1>2 DEF Regions, WithPerms
<1> HIDE DEF s
<1>4. /\ s \in Regions /\ End(s) \in Addr /\ PartOf(s, r)
      /\ addr <= s.addr /\ End(s) <= addr + size /\ s.perms = perms
  BY <1>2, <1>3 DEF PartOf, End
<1>5. QED
  BY <1>4 DEF s, t

(* Rewriting the permissions of a range keeps the ledger well typed and    *)
(* disjoint.                                                               *)
LEMMA RewriteSound ==
  ASSUME NEW L, LedgerOK(L), Disjoint(L), NEW addr \in Nat,
         NEW size \in Nat \ {0}, NEW perms \in Perms
  PROVE  /\ LedgerOK(Rewrite(L, addr, size, perms))
         /\ Disjoint(Rewrite(L, addr, size, perms))
<1> DEFINE new(r) == WithPerms(Inside(r, addr, addr + size), perms)
           T == Touched(L, addr, size)
           C == Carve(L, addr, size)
<1>1. \A r \in T : /\ new(r) \in Regions /\ End(new(r)) \in Addr /\ PartOf(new(r), r)
                   /\ addr <= new(r).addr /\ End(new(r)) <= addr + size
  BY NewParts
<1>2. LedgerOK(C) /\ Disjoint(C) /\ Vacant(C, addr, size)
  BY CarveSound
<1>3. Rewrite(L, addr, size, perms) = C \cup {new(r) : r \in T}
  BY DEF Rewrite
<1> HIDE DEF new, C
<1>4. ASSUME NEW s \in C, NEW r \in T
      PROVE  ~Overlaps(s, new(r).addr, new(r).size) /\ ~Overlaps(new(r), s.addr, s.size)
  <2>1. ~Overlaps(s, addr, size) /\ s \in Regions
    BY <1>2 DEF Vacant, LedgerOK
  <2>2. QED
    BY <1>1, <2>1, PageAssumption DEF Overlaps, End, Regions, Addr
<1>5. ASSUME NEW q \in T, NEW r \in T, new(q) # new(r)
      PROVE  ~Overlaps(new(q), new(r).addr, new(r).size)
  <2>1. q \in Regions /\ r \in Regions /\ ~Overlaps(q, r.addr, r.size)
    BY <1>5 DEF Touched, Disjoint, LedgerOK
  <2>2. QED
    BY <1>1, <2>1, PageAssumption DEF Overlaps, End, Regions, Addr, PartOf
<1>6. QED
  BY <1>1, <1>2, <1>3, <1>4, <1>5 DEF LedgerOK, Disjoint
-----------------------------------------------------------------------------
(* Mapping and unmapping pages keep the backend well typed.                *)
LEMMA MapSound ==
  ASSUME NEW B, BackendOK(B), NEW P \in SUBSET Pages, NEW perms \in Perms
  PROVE  /\ BackendOK(MapPages(B, P, perms))
         /\ DOMAIN MapPages(B, P, perms) = DOMAIN B \cup P
BY DEF BackendOK, MapPages

LEMMA UnmapPagesSound ==
  ASSUME NEW B, BackendOK(B), NEW P
  PROVE  /\ BackendOK(UnmapPages(B, P))
         /\ DOMAIN UnmapPages(B, P) = DOMAIN B \ P
BY DEF BackendOK, UnmapPages

(* Every page of the ledger is mapped.                                     *)
Backed(L, B) == \A r \in L : PagesOf(r.addr, r.size) \subseteq DOMAIN B

(* A part of a region needs no page the region did not need.               *)
LEMMA PartPages ==
  ASSUME NEW r \in Regions, NEW s \in Regions, PartOf(s, r)
  PROVE  PagesOf(s.addr, s.size) \subseteq PagesOf(r.addr, r.size)
<1>1. /\ r.addr \in Int /\ r.size \in Int /\ s.addr \in Int /\ s.size \in Int
      /\ Pages \subseteq Int /\ PageSize \in Int
  BY PageAssumption DEF Regions, Pages, Addr
<1>2. r.addr <= s.addr /\ s.addr + s.size <= r.addr + r.size
  BY DEF PartOf, End
<1>3. ASSUME NEW p \in Pages, p < s.addr + s.size, s.addr < p + PageSize
      PROVE  p < r.addr + r.size /\ r.addr < p + PageSize
  <2>1. p \in Int
    BY <1>1
  <2>2. QED
    BY <1>1, <1>2, <1>3, <2>1
<1>4. QED
  BY <1>3 DEF PagesOf

(* Distinct multiples of n are at least n apart.                           *)
LEMMA MultiplesApart ==
  ASSUME NEW n \in Nat \ {0}, NEW x \in Int, NEW y \in Int,
         Aligned(x, n), Aligned(y, n), x < y
  PROVE  x + n <= y
<1>1. PICK j \in Int : x = j * n
  BY DEF Aligned
<1>2. PICK k \in Int : y = k * n
  BY DEF Aligned
<1>3. j + 1 <= k
  BY <1>1, <1>2
<1>4. (j + 1) * n <= k * n
  BY <1>3
<1>5. QED
  BY <1>1, <1>2, <1>4

LEMMA SumAligned ==
  ASSUME NEW n \in Nat \ {0}, NEW x \in Int, NEW y \in Int,
         Aligned(x, n), Aligned(y, n)
  PROVE  Aligned(x + y, n)
<1>1. PICK j \in Int : x = j * n
  BY DEF Aligned
<1>2. PICK k \in Int : y = k * n
  BY DEF Aligned
<1>3. x + y = (j + k) * n /\ j + k \in Int
  BY <1>1, <1>2
<1>4. \A i \in Int : (i * n) % n = 0
  OBVIOUS
<1>5. QED
  BY <1>3, <1>4 DEF Aligned

(* Unmapping whole pages takes no page from what Carve leaves.             *)
LEMMA CarvePages ==
  ASSUME NEW L, LedgerOK(L), NEW addr \in Nat, NEW size \in Nat \ {0},
         Aligned(addr, PageSize), Aligned(addr + size, PageSize),
         NEW s \in Carve(L, addr, size)
  PROVE  \E r \in L : /\ PagesOf(s.addr, s.size) \subseteq PagesOf(r.addr, r.size)
                      /\ PagesOf(s.addr, s.size) \cap PagesOf(addr, size) = {}
<1>1. PICK r \in L : s \in Regions /\ PartOf(s, r) /\ CutFrom(s, r, addr, size)
  BY CarveParts
<1>2. PagesOf(s.addr, s.size) \subseteq PagesOf(r.addr, r.size)
  BY <1>1, PartPages DEF LedgerOK
<1>3. End(s) <= addr \/ addr + size <= s.addr
  BY <1>1, PageAssumption DEF CutFrom, Overlaps, End, Regions, Addr
<1>4. s.addr \in Int /\ s.size \in Int /\ End(s) = s.addr + s.size
  BY <1>1, PageAssumption DEF End, Regions, Addr
<1>5. ASSUME NEW p \in Pages, p < End(s), s.addr < p + PageSize,
             p < addr + size, addr < p + PageSize
      PROVE  FALSE
  <2>1. p \in Int /\ Aligned(p, PageSize)
    BY PageAssumption DEF Pages, Addr
  <2>2. p < addr => p + PageSize <= addr
    BY <2>1, MultiplesApart, PageAssumption
  <2>3. p < addr + size => p + PageSize <= addr + size
    BY <2>1, MultiplesApart, PageAssumption
  <2>4. QED
    BY <1>3, <1>4, <1>5, <2>1, <2>2, <2>3, PageAssumption
<1>6. QED
  BY <1>2, <1>4, <1>5 DEF PagesOf
-----------------------------------------------------------------------------
(***************************************************************************)
(* The memory is sound when it is well typed, its ledger disjoint and all  *)
(* of the ledger mapped.  The three operations of MemoryAddressSpace keep  *)
(* it so, whichever backend operation fails.                               *)
(***************************************************************************)
Sound(m) ==
  MemOK(m) /\ Disjoint(m.ledger) /\ Backed(m.ledger, m.backend)

LEMMA AllocateSound ==
  ASSUME NEW m, Sound(m), NEW req, RequestOK(req), NEW tracks \in BOOLEAN, NEW fails
  PROVE  /\ Sound(Allocate(m, req, tracks, fails).mem)
         /\ Allocate(m, req, tracks, fails).ok =>
              \E r \in Plan(m.ledger, req) :
                /\ r \notin m.ledger
                /\ Allocate(m, req, tracks, fails).mem.ledger = m.ledger \cup {r}
<1> DEFINE plan == Plan(m.ledger, req)
           r == CHOOSE x \in plan : TRUE
           backend == MapPages(m.backend, PagesOf(r.addr, r.size), r.perms)
           range == [addr |-> r.addr, size |-> r.size]
           mapped == [ledger |-> m.ledger, backend |-> backend,
                      tracker |-> m.tracker]
           grown(T) == [ledger |-> m.ledger \cup {r}, backend |-> backend,
                        tracker |-> T]
           a == Allocate(m, req, tracks, fails)
<1>1. CASE a = Failed(m)
  BY <1>1 DEF Failed
<1>2. CASE plan # {} /\ a # Failed(m)
  <2>1. r \in plan
    BY <1>2
  <2>2. \/ a = Failed(mapped)
        \/ a = Done(grown(m.tracker \cup {range}))
        \/ a = Done(grown(m.tracker))
    BY <1>2 DEF Allocate
  <2> HIDE DEF r, a
  <2>3. r \in Regions /\ End(r) \in Addr /\ Vacant(m.ledger, r.addr, r.size)
    BY <2>1, PlanSound
  <2>4. r.perms \in Perms /\ r.addr \in Addr /\ r.size \in Addr \ {0}
    BY <2>3 DEF Regions
  <2>5. /\ BackendOK(backend)
        /\ DOMAIN backend = DOMAIN m.backend \cup PagesOf(r.addr, r.size)
    <3>1. BackendOK(m.backend)
      BY DEF Sound, MemOK
    <3>2. PagesOf(r.addr, r.size) \in SUBSET Pages
      BY DEF PagesOf
    <3>3. QED
      BY <2>4, <3>1, <3>2, MapSound
  <2>6. TrackerOK(m.tracker) /\ TrackerOK(m.tracker \cup {range})
    BY <2>4 DEF Sound, MemOK, TrackerOK
  <2>7. LedgerOK(m.ledger \cup {r}) /\ Disjoint(m.ledger \cup {r}) /\ r \notin m.ledger
    BY <2>3, AddVacant DEF Sound, MemOK
  <2>8. Backed(m.ledger, backend) /\ Backed(m.ledger \cup {r}, backend)
    BY <2>5 DEF Backed, Sound
  <2> HIDE DEF backend, range
  <2>9. Sound(mapped)
    BY <2>5, <2>8 DEF Sound, MemOK
  <2>10. \A T : TrackerOK(T) => Sound(grown(T))
    BY <2>5, <2>7, <2>8 DEF Sound, MemOK
  <2>11. \A T : grown(T).ledger = m.ledger \cup {r}
    OBVIOUS
  <2> HIDE DEF mapped, grown
  <2>12. Sound(a.mem) /\ (a.ok => a.mem.ledger = m.ledger \cup {r})
    BY <2>2, <2>6, <2>9, <2>10, <2>11 DEF Failed, Done
  <2>13. QED
    BY <2>1, <2>7, <2>12 DEF a
<1>3. QED
  BY <1>1, <1>2 DEF Allocate

LEMMA ProtectSound ==
  ASSUME NEW m, Sound(m), NEW addr \in Nat, NEW size \in Nat,
         NEW perms \in Perms, NEW fails
  PROVE  Sound(Protect(m, addr, size, perms, fails).mem)
<1> DEFINE rewritten == Rewrite(m.ledger, addr, size, perms)
           backend == MapPages(m.backend, PagesOf(addr, size), perms)
           a == Protect(m, addr, size, perms, fails)
<1>1. CASE a = Failed(m)
  BY <1>1 DEF Failed
<1>2. CASE /\ size # 0
           /\ a = Done([ledger |-> rewritten, backend |-> backend,
                        tracker |-> m.tracker])
  <2>1. LedgerOK(rewritten) /\ Disjoint(rewritten)
    BY <1>2, RewriteSound DEF Sound, MemOK
  <2>2. /\ BackendOK(backend)
        /\ DOMAIN m.backend \subseteq DOMAIN backend
    <3>1. BackendOK(m.backend)
      BY DEF Sound, MemOK
    <3>2. PagesOf(addr, size) \in SUBSET Pages
      BY DEF PagesOf
    <3>3. /\ BackendOK(backend)
          /\ DOMAIN backend = DOMAIN m.backend \cup PagesOf(addr, size)
      BY <3>1, <3>2, MapSound
    <3> HIDE DEF backend
    <3>4. QED
      BY <3>3
  <2>3. ASSUME NEW s \in rewritten
        PROVE  PagesOf(s.addr, s.size) \subseteq DOMAIN backend
    <3>1. PICK r \in m.ledger : s \in Regions /\ PartOf(s, r)
      <4>1. CASE s \in Carve(m.ledger, addr, size)
        BY <1>2, <4>1, CarveParts DEF Sound, MemOK
      <4>2. CASE s \notin Carve(m.ledger, addr, size)
        <5>1. PICK r \in Touched(m.ledger, addr, size) :
                s = WithPerms(Inside(r, addr, addr + size), perms)
          BY <4>2 DEF Rewrite
        <5>2. s \in Regions /\ PartOf(s, r)
          BY <1>2, <5>1, NewParts DEF Sound, MemOK
        <5>3. QED
          BY <5>2 DEF Touched
      <4>3. QED
        BY <4>1, <4>2
    <3>2. PagesOf(s.addr, s.size) \subseteq PagesOf(r.addr, r.size)
      BY <3>1, PartPages DEF Sound, MemOK, LedgerOK
    <3>3. QED
      BY <2>2, <3>2 DEF Sound, Backed
  <2>4. Backed(rewritten, backend)
    BY <2>3 DEF Backed
  <2> HIDE DEF rewritten, backend
  <2>5. QED
    BY <1>2, <2>1, <2>2, <2>4 DEF Sound, MemOK, Done
<1>3. QED
  BY <1>1, <1>2 DEF Protect

LEMMA UnmapSound ==
  ASSUME NEW m, Sound(m), NEW addr \in Nat, NEW size \in Nat, NEW fails
  PROVE  Sound(Unmap(m, addr, size, fails).mem)
<1> DEFINE left == Carve(m.ledger, addr, size)
           backend == UnmapPages(m.backend, PagesOf(addr, size))
           a == Unmap(m, addr, size, fails)
<1>1. CASE a = Failed(m)
  BY <1>1 DEF Failed
<1>2. CASE /\ size # 0 /\ Aligned(addr, PageSize) /\ Aligned(size, PageSize)
           /\ a = Done([ledger |-> left, backend |-> backend,
                        tracker |-> m.tracker])
  <2>1. LedgerOK(left) /\ Disjoint(left)
    BY <1>2, CarveSound DEF Sound, MemOK
  <2>2. /\ BackendOK(backend)
        /\ DOMAIN backend = DOMAIN m.backend \ PagesOf(addr, size)
    BY UnmapPagesSound DEF Sound, MemOK
  <2>3. Aligned(addr + size, PageSize)
    BY <1>2, SumAligned, PageAssumption
  <2>4. ASSUME NEW s \in left
        PROVE  PagesOf(s.addr, s.size) \subseteq DOMAIN backend
    <3>1. PICK r \in m.ledger :
            /\ PagesOf(s.addr, s.size) \subseteq PagesOf(r.addr, r.size)
            /\ PagesOf(s.addr, s.size) \cap PagesOf(addr, size) = {}
      BY <1>2, <2>3, CarvePages DEF Sound, MemOK
    <3>2. QED
      BY <2>2, <3>1 DEF Sound, Backed
  <2>5. Backed(left, backend)
    BY <2>4 DEF Backed
  <2> HIDE DEF left, backend
  <2>6. QED
    BY <1>2, <2>1, <2>2, <2>5 DEF Sound, MemOK, Done
<1>3. QED
  BY <1>1, <1>2 DEF Unmap
-----------------------------------------------------------------------------
(* What the ELF header says of an image's end is a natural number.         *)
LEMMA SegmentEndsOK ==
  ASSUME NEW img \in Images, NEW last \in SegmentEnds(img)
  PROVE  AlignUp(last, PageSize) \in Nat
<1>1. PICK i \in DOMAIN img.segs :
        last = img.segs[i].vaddr + img.segs[i].memsz
  BY DEF SegmentEnds
<1>2. img.segs[i] \in Segments
  <2>1. img.segs \in Seq(Segments)
    BY GuestMemoryAssumption DEF ImageOK
  <2>2. QED
    BY <1>1, <2>1
<1>3. last \in Nat
  BY <1>1, <1>2, PageAssumption DEF Segments, Addr
<1>4. QED
  BY <1>3, Rounding, PageAssumption

(* The length the guest passes, rounded, is a natural number.              *)
LEMMA AlignLenOK ==
  ASSUME NEW len \in Lengths
  PROVE  AlignLen(len) \in Nat
<1> DEFINE sum == (len + PageSize - 1) % (MaxAddr + 1)
<1>1. sum \in Nat
  BY PageAssumption, GuestMemoryAssumption DEF Addr
<1> HIDE DEF sum
<1>2. AlignDown(sum, PageSize) \in Nat
  BY <1>1, Rounding, PageAssumption
<1>3. QED
  BY <1>2, PageAssumption DEF AlignLen, sum

(* The range a segment is protected with is a non-empty run of pages.      *)
LEMMA SegmentRangeOK ==
  ASSUME NEW base \in Addr, NEW seg \in Segments
  PROVE  LET start == AlignDown(base + seg.vaddr, PageSize)
             end == AlignUp(base + seg.vaddr + seg.memsz, PageSize)
         IN  start \in Nat /\ end - start \in Nat /\ seg.perms \in Perms
<1> DEFINE lo == base + seg.vaddr
           hi == lo + seg.memsz
<1>1. lo \in Nat /\ hi \in Nat /\ lo <= hi /\ seg.perms \in Perms
  BY PageAssumption DEF Segments, Addr
<1> HIDE DEF lo, hi
<1>2. /\ AlignDown(lo, PageSize) \in Nat /\ AlignUp(hi, PageSize) \in Int
      /\ AlignDown(lo, PageSize) <= lo /\ hi <= AlignUp(hi, PageSize)
  BY <1>1, Rounding, PageAssumption
<1>3. AlignUp(hi, PageSize) - AlignDown(lo, PageSize) \in Nat
  BY <1>1, <1>2
<1>4. QED
  BY <1>1, <1>2, <1>3 DEF lo, hi
-----------------------------------------------------------------------------
(***************************************************************************)
(* The inductive invariant: the memory is sound, and the host's own state  *)
(* is well typed.  It says the same as TypeOK, NoOverlap and LedgerBacked  *)
(* together (IInvMeaning).                                                 *)
(***************************************************************************)
HostOK ==
  /\ host \in {"idle", "loading", "calling", "guest"}
  /\ host = "loading" => /\ load.base \in Addr /\ load.img \in Images
                         /\ load.left \in Seq(Segments)
  /\ images \subseteq [base : Addr, img : Images]
  /\ trampolineMapped \in BOOLEAN
  /\ result \in {"ok", "err"}

IInv == Sound(mem) /\ HostOK

LEMMA IInvMeaning == IInv <=> TypeOK /\ NoOverlap /\ LedgerBacked
<1>1. LedgerBacked <=> Backed(mem.ledger, mem.backend)
  BY DEF LedgerBacked, LedgerPages, Backed
<1>2. QED
  BY <1>1 DEF IInv, Sound, MemOK, LedgerOK, BackendOK, TrackerOK, HostOK,
              TypeOK, NoOverlap

LEMMA InitSound == Init => IInv
<1> SUFFICES ASSUME Init PROVE IInv
  OBVIOUS
<1> DEFINE range == [addr |-> Scratch.addr, size |-> Scratch.size]
<1>1. SiteOK(Scratch)
  BY GuestMemoryAssumption
<1>2. ScratchRegion \in Regions /\ End(ScratchRegion) \in Addr
  BY <1>1 DEF SiteOK, ScratchRegion, Regions, End, Perms, Modes, Usages
<1>3. LedgerOK(mem.ledger) /\ Disjoint(mem.ledger)
  BY <1>2 DEF Init, LedgerOK, Disjoint
<1>4. /\ BackendOK(mem.backend)
      /\ DOMAIN mem.backend = PagesOf(Scratch.addr, Scratch.size)
  BY DEF Init, BackendOK, Perms, PagesOf
<1>5. Backed(mem.ledger, mem.backend)
  BY <1>4 DEF Init, Backed, ScratchRegion
<1>6. TrackerOK(mem.tracker)
  <2>1. range \in [addr : Addr, size : Addr \ {0}]
    BY <1>1 DEF SiteOK
  <2>2. mem.tracker \subseteq {range}
    BY DEF Init
  <2>3. QED
    BY <2>1, <2>2 DEF TrackerOK
<1>7. HostOK
  BY DEF Init, HostOK
<1>8. QED
  BY <1>3, <1>4, <1>5, <1>6, <1>7 DEF IInv, Sound, MemOK

(* Requests for a fixed range, and the ones mmap makes.                    *)
LEMMA RequestsOK ==
  /\ \A site, perms, usage :
       SiteOK(site) /\ perms \in Perms /\ usage \in Usages
         => RequestOK(Reserved(site.addr, site.size, perms, usage))
  /\ \A hint : \A len \in Lengths, perms \in Prots, usage \in Usages :
       RequestOK(MmapRequest(hint, len, perms, usage))
  /\ \A img \in Images : \A last \in SegmentEnds(img) :
       RequestOK(FootprintRequest(img, last))
<1>1. ASSUME NEW site, NEW perms \in Perms, NEW usage \in Usages, SiteOK(site)
      PROVE  RequestOK(Reserved(site.addr, site.size, perms, usage))
  BY <1>1, PageAssumption DEF RequestOK, Reserved, SiteOK, Addr, Modes
<1>2. ASSUME NEW hint, NEW len \in Lengths, NEW perms \in Prots, NEW usage \in Usages
      PROVE  RequestOK(MmapRequest(hint, len, perms, usage))
  <2>1. perms \in Perms /\ AlignLen(len) \in Nat
    BY AlignLenOK, GuestMemoryAssumption
  <2>2. QED
    BY <2>1 DEF RequestOK, MmapRequest, Reserved, Dynamic, Modes
<1>3. ASSUME NEW img \in Images, NEW last \in SegmentEnds(img)
      PROVE  RequestOK(FootprintRequest(img, last))
  BY SegmentEndsOK DEF RequestOK, FootprintRequest, Dynamic, Modes, Usages, Perms
<1>4. QED
  BY <1>1, <1>2, <1>3
(* A step that only reports the outcome of a memory operation.             *)
LEMMA ReportSound ==
  ASSUME NEW a, Sound(a.mem), Report(a)
  PROVE  Sound(mem)' /\ result' \in {"ok", "err"}
BY DEF Report

(* Every action keeps the invariant.                                       *)
LEMMA StepSound == IInv /\ [Next]_vars => IInv'
<1> SUFFICES ASSUME IInv, [Next]_vars PROVE IInv'
  OBVIOUS
<1>m. Sound(mem) /\ HostOK
  BY DEF IInv
<1>t. Tracked \in BOOLEAN /\ FALSE \in BOOLEAN
  BY GuestMemoryAssumption
<1>1. CASE InitJni
  <2>1. PICK fails \in FaultPlans :
          Report(Allocate(mem, Reserved(Jni.addr, Jni.size, {"r", "x"}, "JNIEnv"),
                          Tracked, fails))
    BY <1>1 DEF InitJni
  <2>2. RequestOK(Reserved(Jni.addr, Jni.size, {"r", "x"}, "JNIEnv"))
    BY RequestsOK, GuestMemoryAssumption DEF Usages, Perms
  <2>3. Sound(mem)' /\ result' \in {"ok", "err"}
    BY <1>m, <1>t, <2>1, <2>2, AllocateSound, ReportSound
  <2>4. QED
    BY <1>m, <1>1, <2>3 DEF InitJni, IInv, HostOK
<1>2. ASSUME NEW img \in Images, ReserveImage(img)
      PROVE  IInv'
  <2>1. PICK last \in SegmentEnds(img), fails \in FaultPlans :
          LET r == Allocate(mem, FootprintRequest(img, last), Tracked, fails)
              new == CHOOSE x \in r.mem.ledger \ mem.ledger : TRUE
              written == r.ok /\ "write" \notin fails
          IN  /\ mem' = r.mem
              /\ result' = IF written THEN "ok" ELSE "err"
              /\ IF written
                   THEN /\ host' = "loading"
                        /\ load' = [base |-> new.addr, left |-> img.segs, img |-> img]
                   ELSE UNCHANGED <<host, load>>
    BY <1>2 DEF ReserveImage
  <2> DEFINE req == FootprintRequest(img, last)
             r == Allocate(mem, req, Tracked, fails)
             new == CHOOSE x \in r.mem.ledger \ mem.ledger : TRUE
  <2>2. RequestOK(req)
    BY RequestsOK
  <2>3. /\ Sound(r.mem)
        /\ r.ok => \E x \in Plan(mem.ledger, req) :
             x \notin mem.ledger /\ r.mem.ledger = mem.ledger \cup {x}
    BY <1>m, <1>t, <2>2, AllocateSound
  <2>4. r.ok => new.addr \in Addr
    <3>1. SUFFICES ASSUME r.ok PROVE new.addr \in Addr
      OBVIOUS
    <3>2. PICK x \in Plan(mem.ledger, req) :
            x \notin mem.ledger /\ r.mem.ledger = mem.ledger \cup {x}
      BY <2>3, <3>1
    <3>3. x \in Regions
      BY <2>2, PlanSound
    <3>4. r.mem.ledger \ mem.ledger = {x}
      BY <3>2
    <3> HIDE DEF r
    <3>5. new = x
      BY <3>4
    <3>6. QED
      BY <3>3, <3>5 DEF Regions
  <2>5. img.segs \in Seq(Segments)
    BY GuestMemoryAssumption DEF ImageOK
  <2>6. UNCHANGED <<images, trampolineMapped>>
    BY <1>2 DEF ReserveImage
  <2>7. Sound(mem)'
    BY <2>1, <2>3
  <2>8. HostOK'
    <3> HIDE DEF r, new
    <3>1. /\ result' \in {"ok", "err"}
          /\ \/ /\ r.ok /\ host' = "loading"
                /\ load' = [base |-> new.addr, left |-> img.segs, img |-> img]
             \/ UNCHANGED <<host, load>>
      BY <2>1 DEF r, new
    <3>2. QED
      BY <1>m, <2>4, <2>5, <2>6, <3>1 DEF HostOK
  <2>9. QED
    BY <2>7, <2>8 DEF IInv
<1>3. CASE ProtectSegment
  <2> DEFINE seg == Head(load.left)
             start == AlignDown(load.base + seg.vaddr, PageSize)
             end == AlignUp(load.base + seg.vaddr + seg.memsz, PageSize)
  <2>1. /\ load.base \in Addr /\ load.img \in Images
        /\ load.left \in Seq(Segments) /\ load.left # <<>>
    BY <1>m, <1>3 DEF ProtectSegment, HostOK
  <2>2. seg \in Segments /\ Tail(load.left) \in Seq(Segments)
    BY <2>1
  <2>3. start \in Nat /\ end - start \in Nat /\ seg.perms \in Perms
    BY <2>1, <2>2, SegmentRangeOK
  <2>4. PICK fails \in FaultPlans :
          LET r == Protect(mem, start, end - start, seg.perms, fails)
          IN  /\ Report(r)
              /\ IF r.ok
                   THEN /\ load' = [base |-> load.base, left |-> Tail(load.left),
                                    img |-> load.img]
                        /\ UNCHANGED host
                   ELSE load' = NoLoad /\ host' = "idle"
    BY <1>3 DEF ProtectSegment
  <2> HIDE DEF start, end, seg
  <2>5. Sound(mem)' /\ result' \in {"ok", "err"}
    BY <1>m, <2>3, <2>4, ProtectSound, ReportSound
  <2>6. \/ /\ load' = [base |-> load.base, left |-> Tail(load.left),
                       img |-> load.img]
           /\ UNCHANGED host
        \/ host' = "idle"
    BY <2>4
  <2>7. QED
    BY <1>m, <1>3, <2>1, <2>2, <2>5, <2>6 DEF ProtectSegment, IInv, HostOK
<1>4. CASE FinishLoad
  BY <1>m, <1>4 DEF FinishLoad, IInv, HostOK
<1>5. ASSUME NEW m \in images, ProtectRelro(m)
      PROVE  IInv'
  <2>1. PICK i \in RelroSegments(m.img), fails \in FaultPlans :
          LET seg == m.img.segs[i]
              start == AlignDown(m.base + seg.vaddr, PageSize)
              end == AlignUp(m.base + seg.vaddr + seg.memsz, PageSize)
          IN  Report(Protect(mem, start, end - start, {"r"}, fails))
    BY <1>5 DEF ProtectRelro
  <2> DEFINE seg == m.img.segs[i]
             start == AlignDown(m.base + seg.vaddr, PageSize)
             end == AlignUp(m.base + seg.vaddr + seg.memsz, PageSize)
  <2>2. m.base \in Addr /\ m.img \in Images
    BY <1>m DEF HostOK
  <2>3. seg \in Segments
    <3>1. m.img.segs \in Seq(Segments)
      BY <2>2, GuestMemoryAssumption DEF ImageOK
    <3>2. QED
      BY <3>1 DEF RelroSegments
  <2>4. start \in Nat /\ end - start \in Nat
    BY <2>2, <2>3, SegmentRangeOK
  <2>5. {"r"} \in Perms
    BY DEF Perms
  <2> HIDE DEF start, end, seg
  <2>6. Report(Protect(mem, start, end - start, {"r"}, fails))
    BY <2>1 DEF start, end, seg
  <2>7. Sound(mem)' /\ result' \in {"ok", "err"}
    BY <1>m, <2>4, <2>5, <2>6, ProtectSound, ReportSound
  <2>8. QED
    BY <1>m, <1>5, <2>7 DEF ProtectRelro, IInv, HostOK
<1>6. CASE CallMapsSentinel
  <2>1. PICK fails \in FaultPlans :
          LET r == Allocate(mem, Reserved(Sentinel.addr, Sentinel.size, {"r", "x"},
                                          "Trampoline"), Tracked, fails)
          IN  Report(r) /\ host' = IF r.ok THEN "calling" ELSE host
    BY <1>6 DEF CallMapsSentinel
  <2>2. RequestOK(Reserved(Sentinel.addr, Sentinel.size, {"r", "x"}, "Trampoline"))
    BY RequestsOK, GuestMemoryAssumption DEF Usages, Perms
  <2>3. Sound(mem)' /\ result' \in {"ok", "err"}
    BY <1>m, <1>t, <2>1, <2>2, AllocateSound, ReportSound
  <2>4. host' \in {"calling", host}
    BY <2>1
  <2>5. QED
    BY <1>m, <1>6, <2>3, <2>4 DEF CallMapsSentinel, IInv, HostOK
<1>7. CASE CallMapsStack
  <2>1. PICK fails \in FaultPlans :
          LET r == Allocate(mem, Reserved(Stack.addr, Stack.size, {"r", "w"}, "Stack"),
                            Tracked, fails)
              ready == r.ok /\ "write" \notin fails
          IN  /\ mem' = r.mem
              /\ result' = IF ready THEN "ok" ELSE "err"
              /\ trampolineMapped' = ready
              /\ host' = IF ready THEN "guest" ELSE "idle"
    BY <1>7 DEF CallMapsStack
  <2>2. RequestOK(Reserved(Stack.addr, Stack.size, {"r", "w"}, "Stack"))
    BY RequestsOK, GuestMemoryAssumption DEF Usages, Perms
  <2>3. Sound(mem)'
    BY <1>m, <1>t, <2>1, <2>2, AllocateSound
  <2>4. /\ result' \in {"ok", "err"} /\ host' \in {"guest", "idle"}
        /\ trampolineMapped' \in BOOLEAN
    BY <2>1
  <2>5. QED
    BY <1>m, <1>7, <2>3, <2>4 DEF CallMapsStack, IInv, HostOK
<1>8. CASE CallAgain
  BY <1>m, <1>8 DEF CallAgain, IInv, HostOK
<1>9. CASE CallReturns
  BY <1>m, <1>9 DEF CallReturns, IInv, HostOK
<1>10. ASSUME NEW hint \in Hints, NEW len \in Lengths, NEW perms \in Prots,
              MmapAnonymous(hint, len, perms)
       PROVE  IInv'
  <2>1. PICK fails \in FaultPlans :
          Report(Allocate(mem, MmapRequest(hint, len, perms, "AnonymousMmap"),
                          FALSE, fails))
    BY <1>10 DEF MmapAnonymous
  <2>2. RequestOK(MmapRequest(hint, len, perms, "AnonymousMmap"))
    BY RequestsOK DEF Usages
  <2>3. Sound(mem)' /\ result' \in {"ok", "err"}
    BY <1>m, <1>t, <2>1, <2>2, AllocateSound, ReportSound
  <2>4. QED
    BY <1>m, <1>10, <2>3 DEF MmapAnonymous, IInv, HostOK
<1>11. ASSUME NEW usage \in Backings, NEW hint \in Hints, NEW len \in Lengths,
              NEW perms \in Prots, MmapFd(usage, hint, len, perms)
       PROVE  IInv'
  <2>1. PICK fails \in FaultPlans :
          LET r == Allocate(mem, MmapRequest(hint, len, perms, usage), FALSE, fails)
              new == CHOOSE x \in r.mem.ledger \ mem.ledger : TRUE
          IN  IF r.ok /\ "write" \in fails
                THEN /\ mem' = Unmap(r.mem, new.addr, new.size, fails).mem
                     /\ result' = "err"
                ELSE Report(r)
    BY <1>11 DEF MmapFd
  <2> DEFINE req == MmapRequest(hint, len, perms, usage)
             r == Allocate(mem, req, FALSE, fails)
             new == CHOOSE x \in r.mem.ledger \ mem.ledger : TRUE
  <2>2. RequestOK(req)
    <3>1. usage \in Usages
      BY GuestMemoryAssumption DEF Usages
    <3>2. QED
      BY <3>1, RequestsOK
  <2> HIDE DEF req
  <2>3. /\ Sound(r.mem)
        /\ r.ok => \E x \in Plan(mem.ledger, req) :
             x \notin mem.ledger /\ r.mem.ledger = mem.ledger \cup {x}
    <3>1. \A tracks \in BOOLEAN :
            LET a == Allocate(mem, req, tracks, fails)
            IN  /\ Sound(a.mem)
                /\ a.ok => \E x \in Plan(mem.ledger, req) :
                     x \notin mem.ledger /\ a.mem.ledger = mem.ledger \cup {x}
      BY <1>m, <2>2, AllocateSound
    <3>2. QED
      BY <1>t, <3>1 DEF r
  <2>4. r.ok => new.addr \in Nat /\ new.size \in Nat
    <3>1. SUFFICES ASSUME r.ok PROVE new.addr \in Nat /\ new.size \in Nat
      OBVIOUS
    <3>2. PICK x \in Plan(mem.ledger, req) :
            x \notin mem.ledger /\ r.mem.ledger = mem.ledger \cup {x}
      BY <2>3, <3>1
    <3>3. x \in Regions
      BY <2>2, PlanSound
    <3>4. r.mem.ledger \ mem.ledger = {x}
      BY <3>2
    <3> HIDE DEF r
    <3>5. new = x
      BY <3>4
    <3>6. x.addr \in Nat /\ x.size \in Nat
      BY <3>3, PageAssumption DEF Regions, Addr
    <3> HIDE DEF new
    <3>7. QED
      BY <3>5, <3>6
  <2> HIDE DEF r, new, req
  <2>5. \/ r.ok /\ mem' = Unmap(r.mem, new.addr, new.size, fails).mem /\ result' = "err"
        \/ Report(r)
    BY <2>1 DEF r, new, req
  <2>6. Sound(mem)' /\ result' \in {"ok", "err"}
    BY <2>3, <2>4, <2>5, UnmapSound, ReportSound
  <2>7. QED
    BY <1>m, <1>11, <2>6 DEF MmapFd, IInv, HostOK
<1>12. ASSUME NEW addr \in GuestAddrs, NEW len \in Lengths, Munmap(addr, len)
       PROVE  IInv'
  <2>1. PICK fails \in FaultPlans : Report(Unmap(mem, addr, AlignLen(len), fails))
    BY <1>12 DEF Munmap
  <2>2. addr \in Nat
    BY GuestMemoryAssumption, PageAssumption DEF Addr
  <2>3. Sound(mem)' /\ result' \in {"ok", "err"}
    BY <1>m, <2>1, <2>2, AlignLenOK, UnmapSound, ReportSound
  <2>4. QED
    BY <1>m, <1>12, <2>3 DEF Munmap, IInv, HostOK
<1>13. ASSUME NEW addr \in GuestAddrs, NEW len \in Lengths, NEW perms \in Prots,
              Mprotect(addr, len, perms)
       PROVE  IInv'
  <2>1. PICK fails \in FaultPlans :
          Report(Protect(mem, addr, AlignLen(len), perms, fails))
    BY <1>13 DEF Mprotect
  <2>2. addr \in Nat /\ perms \in Perms
    BY GuestMemoryAssumption, PageAssumption DEF Addr
  <2>3. Sound(mem)' /\ result' \in {"ok", "err"}
    BY <1>m, <2>1, <2>2, AlignLenOK, ProtectSound, ReportSound
  <2>4. QED
    BY <1>m, <1>13, <2>3 DEF Mprotect, IInv, HostOK
<1>14. CASE UNCHANGED vars
  BY <1>m, <1>14 DEF vars, IInv, HostOK
<1>15. QED
  BY <1>1, <1>2, <1>3, <1>4, <1>5, <1>6, <1>7, <1>8, <1>9, <1>10, <1>11, <1>12,
     <1>13, <1>14 DEF Next
-----------------------------------------------------------------------------
LEMMA Invariance == Spec => []IInv
BY InitSound, StepSound, PTL DEF Spec

(* Type correctness, for every layout, page size and guest: every region   *)
(* the three operations create, cut or rewrite is non-empty and ends       *)
(* inside the address space (no u64 underflow in the pieces).              *)
THEOREM TypeCorrect == Spec => []TypeOK
BY Invariance, IInvMeaning, PTL

(* No two ledger regions overlap, whatever the guest does with mmap,       *)
(* munmap and mprotect, at whatever addresses.                             *)
THEOREM LedgerDisjoint == Spec => []NoOverlap
BY Invariance, IInvMeaning, PTL

(* Every page the ledger promises is mapped in the backend: eager          *)
(* materialization survives every failing backend operation.               *)
THEOREM EagerlyMaterialized == Spec => []LedgerBacked
BY Invariance, IInvMeaning, PTL

(* Whole, disjoint, backed: the ledger that later calls are decided from.  *)
THEOREM LedgerAlwaysSound == Spec => []LedgerSound
<1>1. IInv => LedgerSound
  BY IInvMeaning DEF LedgerSound
<1> QED BY <1>1, Invariance, PTL
-----------------------------------------------------------------------------
(***************************************************************************)
(* Where regions come from.  A region after a step is a part of one before *)
(* it, or lies where the ledger was vacant and, when it was placed by gap  *)
(* search, inside the arena searched.                                      *)
(***************************************************************************)
InArena(s) ==
  s.mode = "Dynamic" =>
    LET arena == IF s.usage = "ELFImage" THEN ElfArena ELSE MmapArena
    IN  arena.start <= s.addr /\ End(s) <= arena.end

Fresh(L, s) == Vacant(L, s.addr, s.size) /\ InArena(s)

Descends(L2, L) ==
  \A s \in L2 : Fresh(L, s) \/ \E r \in L : PartOf(s, r)

(* A set of naturals that is not empty has a least member: Min finds it.   *)
LEMMA MinMember ==
  ASSUME NEW S \in SUBSET Nat, S # {}
  PROVE  Min(S) \in S /\ \A y \in S : Min(S) <= y
<1> DEFINE R == StrictSubsetOrdering(Nat)
           T == {1..x : x \in S}
<1>1. ASSUME NEW x \in S PROVE 1..x \in FiniteSubsetsOf(Nat)
  <2>1. 1 \in Int /\ x \in Int
    OBVIOUS
  <2>2. IsFiniteSet(1..x)
    BY <2>1, FS_Interval
  <2>3. 1..x \in SUBSET Nat
    OBVIOUS
  <2> QED BY <2>2, <2>3 DEF FiniteSubsetsOf
<1>2. T \subseteq FiniteSubsetsOf(Nat) /\ T # {}
  BY <1>1
<1> HIDE DEF T
<1>3. \E t \in T : \A u \in T : ~(<<u, t>> \in R)
  BY <1>2, FS_StrictSubsetOrderingWellFounded, WFMin
<1>4. PICK x \in S : \A y \in S : ~(<<1..y, 1..x>> \in R)
  BY <1>3 DEF T
<1>5. ASSUME NEW y \in S PROVE x <= y
  <2>1. SUFFICES ASSUME y < x PROVE FALSE
    OBVIOUS
  <2>2. 1..y \in SUBSET Nat /\ 1..x \in SUBSET Nat /\ 1..y \subseteq 1..x
    BY <2>1
  <2>3. x \in 1..x /\ x \notin 1..y
    BY <2>1
  <2> HIDE DEF R
  <2>4. <<1..y, 1..x>> \in R
    BY <2>2, <2>3 DEF R, StrictSubsetOrdering
  <2> QED BY <1>4, <2>4
<1> QED BY <1>5 DEF Min

LEMMA MaxOfOne == ASSUME NEW a \in Int PROVE Max({a, a}) = a
<1>1. \A x \in {a, a} : x = a
  OBVIOUS
<1>2. \E x \in {a, a} : \A y \in {a, a} : x >= y
  OBVIOUS
<1> QED BY <1>1, <1>2 DEF Max

(* What the gap search answers lies in the arena, aligned.                 *)
LEMMA FitInArena ==
  ASSUME NEW L, NEW size \in Nat, NEW align, NEW arena, ArenaOK(arena),
         NEW a \in FirstFit(L, size, align, arena, arena.start)
  PROVE  arena.start <= a /\ a + size <= arena.end /\ Aligned(a, align)
<1> DEFINE fits == Fits(L, size, align, arena, arena.start)
<1>1. arena.start \in Nat /\ arena.end \in Nat
  BY PageAssumption DEF ArenaOK, Addr
<1>2. fits \subseteq arena.start..(arena.end - size) /\ \A x \in fits : Aligned(x, align)
  BY <1>1, MaxOfOne DEF Fits
<1>3. fits \in SUBSET Nat
  BY <1>1, <1>2
<1>4. a \in Lowest(fits)
  BY DEF FirstFit
<1> HIDE DEF fits
<1>5. fits # {} /\ a = Min(fits)
  BY <1>4 DEF Lowest
<1>6. a \in fits
  BY <1>3, <1>5, MinMember
<1> QED BY <1>1, <1>2, <1>6

(* The requests this system makes name their arena and start there.        *)
InSystem(req) ==
  req.mode = "Dynamic" =>
    /\ req.hint = req.arena.start
    /\ req.arena = IF req.usage = "ELFImage" THEN ElfArena ELSE MmapArena

LEMMA PlanFresh ==
  ASSUME NEW L, NEW req, RequestOK(req), InSystem(req), NEW r \in Plan(L, req)
  PROVE  Fresh(L, r)
<1> DEFINE size == AlignUp(req.size, PageSize)
<1>1. PICK a \in Placement(L, req, size) :
        /\ r = [addr |-> a, size |-> size, perms |-> req.perms,
                mode |-> req.mode, usage |-> req.usage]
        /\ req.size > 0
  BY DEF Plan
<1>2. size \in Nat
  BY <1>1, RoundUpPositive, PageAssumption DEF RequestOK
<1> HIDE DEF size
<1>3. r.mode = req.mode /\ r.usage = req.usage /\ r.addr = a /\ r.size = size
  BY <1>1
<1>4. ASSUME r.mode = "Dynamic"
      PROVE  LET arena == IF r.usage = "ELFImage" THEN ElfArena ELSE MmapArena
             IN  arena.start <= r.addr /\ End(r) <= arena.end
  <2> DEFINE arena == IF r.usage = "ELFImage" THEN ElfArena ELSE MmapArena
  <2>1. req.hint = arena.start /\ req.arena = arena /\ req.mode # "Reserved"
    BY <1>3, <1>4 DEF InSystem
  <2>2. ArenaOK(arena)
    BY GuestMemoryAssumption
  <2> HIDE DEF arena
  <2>3. a \in FirstFit(L, size, req.align, arena, arena.start)
    BY <2>1 DEF Placement
  <2>4. arena.start <= a /\ a + size <= arena.end
    BY <1>2, <2>2, <2>3, FitInArena
  <2> QED BY <1>3, <2>4 DEF End, arena
<1> QED BY <1>4, PlanSound DEF Fresh, InArena

LEMMA SameDescends ==
  ASSUME NEW L, LedgerOK(L)
  PROVE  Descends(L, L)
<1>1. ASSUME NEW s \in L PROVE PartOf(s, s)
  BY PageAssumption DEF LedgerOK, Regions, Addr, PartOf, End
<1> QED BY <1>1 DEF Descends

LEMMA AllocateDescends ==
  ASSUME NEW m, Sound(m), NEW req, RequestOK(req), InSystem(req),
         NEW tracks \in BOOLEAN, NEW fails
  PROVE  Descends(Allocate(m, req, tracks, fails).mem.ledger, m.ledger)
<1> DEFINE a == Allocate(m, req, tracks, fails)
           L2 == a.mem.ledger
<1>1. \/ L2 = m.ledger
      \/ \E r \in Plan(m.ledger, req) : L2 = m.ledger \cup {r}
  BY DEF Allocate, Failed, Done
<1>2. Descends(m.ledger, m.ledger)
  BY SameDescends DEF Sound, MemOK
<1>3. ASSUME NEW r \in Plan(m.ledger, req), L2 = m.ledger \cup {r}
      PROVE  Descends(L2, m.ledger)
  BY <1>2, <1>3, PlanFresh DEF Descends
<1> HIDE DEF L2
<1> QED BY <1>1, <1>2, <1>3 DEF L2

LEMMA ProtectDescends ==
  ASSUME NEW m, Sound(m), NEW addr \in Nat, NEW size \in Nat, NEW perms \in Perms, NEW fails
  PROVE  Descends(Protect(m, addr, size, perms, fails).mem.ledger, m.ledger)
<1> DEFINE L2 == Protect(m, addr, size, perms, fails).mem.ledger
           L == m.ledger
<1>1. L2 = L \/ (size # 0 /\ L2 = Rewrite(L, addr, size, perms))
  BY DEF Protect, Failed, Done
<1>2. LedgerOK(L)
  BY DEF Sound, MemOK
<1> HIDE DEF L2, L
<1>3. ASSUME size # 0, L2 = Rewrite(L, addr, size, perms) PROVE Descends(L2, L)
  <2>1. ASSUME NEW s \in L2 PROVE \E r \in L : PartOf(s, r)
    <3>1. CASE s \in Carve(L, addr, size)
      BY <1>2, <1>3, <3>1, CarveParts
    <3>2. CASE s \notin Carve(L, addr, size)
      <4>1. PICK r \in Touched(L, addr, size) :
              s = WithPerms(Inside(r, addr, addr + size), perms)
        BY <1>3, <2>1, <3>2 DEF Rewrite
      <4>2. PartOf(s, r)
        BY <1>2, <1>3, <4>1, NewParts
      <4> QED BY <4>2 DEF Touched
    <3> QED BY <3>1, <3>2
  <2> QED BY <2>1 DEF Descends
<1>4. Descends(L2, L)
  BY <1>1, <1>2, <1>3, SameDescends
<1> QED BY <1>4 DEF L2, L

LEMMA UnmapDescends ==
  ASSUME NEW m, Sound(m), NEW addr \in Nat, NEW size \in Nat, NEW fails
  PROVE  \A s \in Unmap(m, addr, size, fails).mem.ledger : \E r \in m.ledger : PartOf(s, r)
<1> DEFINE L2 == Unmap(m, addr, size, fails).mem.ledger
           L == m.ledger
<1>1. L2 = L \/ (size # 0 /\ L2 = Carve(L, addr, size))
  BY DEF Unmap, Failed, Done
<1>2. LedgerOK(L)
  BY DEF Sound, MemOK
<1> HIDE DEF L2, L
<1>3. ASSUME NEW s \in L2 PROVE \E r \in L : PartOf(s, r)
  <2>1. CASE L2 = L
    BY <1>2, <1>3, <2>1, PageAssumption DEF LedgerOK, Regions, Addr, PartOf, End
  <2>2. CASE size # 0 /\ L2 = Carve(L, addr, size)
    BY <1>2, <1>3, <2>2, CarveParts
  <2> QED BY <1>1, <2>1, <2>2
<1> QED BY <1>3 DEF L2, L

(* A part of a fresh region is fresh, a part of a part a part.             *)
LEMMA PartsOfParts ==
  ASSUME NEW L, LedgerOK(L), NEW L1, LedgerOK(L1), Descends(L1, L), NEW L2, LedgerOK(L2),
         \A s \in L2 : \E r \in L1 : PartOf(s, r)
  PROVE  Descends(L2, L)
<1>1. ASSUME NEW s \in L2 PROVE Fresh(L, s) \/ \E r \in L : PartOf(s, r)
  <2>1. PICK t \in L1 : PartOf(s, t)
    OBVIOUS
  <2>2. /\ s.addr \in Int /\ s.size \in Int /\ t.addr \in Int /\ t.size \in Int
        /\ \A r \in L : r.addr \in Int /\ r.size \in Int
    BY PageAssumption DEF LedgerOK, Regions, Addr
  <2>3. CASE Fresh(L, t)
    <3>1. Vacant(L, s.addr, s.size)
      BY <2>1, <2>2, <2>3 DEF Fresh, Vacant, PartOf, Overlaps, End
    <3>2. ArenaOK(ElfArena) /\ ArenaOK(MmapArena)
      BY GuestMemoryAssumption
    <3>3. InArena(s)
      BY <2>1, <2>2, <2>3, <3>2, PageAssumption DEF Fresh, InArena, PartOf, End, ArenaOK, Addr
    <3> QED BY <3>1, <3>3 DEF Fresh
  <2>4. CASE \E r \in L : PartOf(t, r)
    BY <2>1, <2>2, <2>4 DEF PartOf, End
  <2> QED BY <2>3, <2>4 DEF Descends
<1> QED BY <1>1 DEF Descends

LEMMA SystemRequests ==
  /\ \A addr, size, perms, usage : InSystem(Reserved(addr, size, perms, usage))
  /\ \A hint, len, perms : \A usage \in Usages \ {"ELFImage"} :
       InSystem(MmapRequest(hint, len, perms, usage))
  /\ \A img, last : InSystem(FootprintRequest(img, last))
<1>1. \A addr, size, perms, usage : InSystem(Reserved(addr, size, perms, usage))
  BY DEF InSystem, Reserved
<1>2. ASSUME NEW hint, NEW len, NEW perms, NEW usage \in Usages \ {"ELFImage"}
      PROVE  InSystem(MmapRequest(hint, len, perms, usage))
  BY <1>1 DEF MmapRequest, InSystem, Dynamic
<1>3. ASSUME NEW img, NEW last PROVE InSystem(FootprintRequest(img, last))
  BY DEF FootprintRequest, InSystem, Dynamic
<1> QED BY <1>1, <1>2, <1>3

(* mmap of a descriptor: the region allocated, or undone by unmap.         *)
LEMMA MmapFdDescends ==
  ASSUME IInv, NEW usage \in Backings, NEW hint \in Hints, NEW len \in Lengths,
         NEW perms \in Prots, MmapFd(usage, hint, len, perms)
  PROVE  Descends(mem'.ledger, mem.ledger)
<1> DEFINE req == MmapRequest(hint, len, perms, usage)
           r(fails) == Allocate(mem, req, FALSE, fails)
           new(fails) == CHOOSE x \in r(fails).mem.ledger \ mem.ledger : TRUE
<1>1. PICK fails \in FaultPlans :
        IF r(fails).ok /\ "write" \in fails
          THEN mem' = Unmap(r(fails).mem, new(fails).addr, new(fails).size, fails).mem
          ELSE mem' = r(fails).mem
  BY DEF MmapFd, Report
<1> DEFINE a == r(fails)
           n == new(fails)
<1>2. usage \in Usages \ {"ELFImage"}
  BY GuestMemoryAssumption DEF Usages
<1>3. Sound(mem) /\ RequestOK(req) /\ InSystem(req) /\ FALSE \in BOOLEAN
  BY <1>2, RequestsOK, SystemRequests DEF IInv
<1> HIDE DEF req
<1>4. /\ Sound(a.mem) /\ Descends(a.mem.ledger, mem.ledger)
      /\ a.ok => \E x \in Plan(mem.ledger, req) :
           x \notin mem.ledger /\ a.mem.ledger = mem.ledger \cup {x}
  <2>1. \A tracks \in BOOLEAN :
          LET b == Allocate(mem, req, tracks, fails)
          IN  /\ Sound(b.mem) /\ Descends(b.mem.ledger, mem.ledger)
              /\ b.ok => \E x \in Plan(mem.ledger, req) :
                   x \notin mem.ledger /\ b.mem.ledger = mem.ledger \cup {x}
    BY <1>3, AllocateSound, AllocateDescends
  <2> QED BY <1>3, <2>1
<1>5. ASSUME a.ok PROVE n.addr \in Nat /\ n.size \in Nat
  <2>1. PICK x \in Plan(mem.ledger, req) :
          x \notin mem.ledger /\ a.mem.ledger = mem.ledger \cup {x}
    BY <1>4, <1>5
  <2>2. x \in Regions
    BY <1>3, PlanSound
  <2>3. a.mem.ledger \ mem.ledger = {x}
    BY <2>1
  <2> HIDE DEF r
  <2>4. n = x
    BY <2>3
  <2> HIDE DEF new
  <2> QED BY <2>2, <2>4, PageAssumption DEF Regions, Addr
<1>6. \/ a.ok /\ mem' = Unmap(a.mem, n.addr, n.size, fails).mem
      \/ mem' = a.mem
  BY <1>1
<1> HIDE DEF r, new, a, n
<1>7. CASE mem' = a.mem
  BY <1>4, <1>7
<1>8. CASE a.ok /\ mem' = Unmap(a.mem, n.addr, n.size, fails).mem
  <2>1. Sound(mem')
    BY <1>4, <1>5, <1>8, UnmapSound
  <2>2. \A s \in mem'.ledger : \E t \in a.mem.ledger : PartOf(s, t)
    BY <1>4, <1>5, <1>8, UnmapDescends
  <2>3. LedgerOK(mem.ledger) /\ LedgerOK(a.mem.ledger) /\ LedgerOK(mem'.ledger)
    BY <1>3, <1>4, <2>1 DEF Sound, MemOK
  <2> QED BY <1>4, <2>2, <2>3, PartsOfParts
<1> QED BY <1>6, <1>7, <1>8

(* Every step: regions come from the ledger before it, or are fresh.       *)
LEMMA StepDescends == IInv /\ [Next]_vars => Descends(mem'.ledger, mem.ledger)
<1> SUFFICES ASSUME IInv, [Next]_vars PROVE Descends(mem'.ledger, mem.ledger)
  OBVIOUS
<1>m. Sound(mem) /\ HostOK /\ Tracked \in BOOLEAN /\ FALSE \in BOOLEAN
  BY GuestMemoryAssumption DEF IInv
<1>u. ASSUME mem' = mem PROVE Descends(mem'.ledger, mem.ledger)
  BY <1>m, <1>u, SameDescends DEF Sound, MemOK
<1>1. ASSUME NEW site, SiteOK(site), NEW perms \in Perms, NEW usage \in Usages, NEW fails,
             mem' = Allocate(mem, Reserved(site.addr, site.size, perms, usage), Tracked, fails).mem
      PROVE  Descends(mem'.ledger, mem.ledger)
  BY <1>m, <1>1, RequestsOK, SystemRequests, AllocateDescends
<1>2. /\ SiteOK(Jni) /\ SiteOK(Sentinel) /\ SiteOK(Stack)
      /\ {"r", "x"} \in Perms /\ {"r", "w"} \in Perms /\ {"r"} \in Perms
      /\ {"JNIEnv", "Trampoline", "Stack"} \subseteq Usages
  BY GuestMemoryAssumption DEF Perms, Usages
<1>3. CASE InitJni
  BY <1>1, <1>2, <1>3 DEF InitJni, Report
<1>4. CASE CallMapsSentinel
  BY <1>1, <1>2, <1>4 DEF CallMapsSentinel, Report
<1>5. CASE CallMapsStack
  BY <1>1, <1>2, <1>5 DEF CallMapsStack
<1>6. ASSUME NEW img \in Images, ReserveImage(img) PROVE Descends(mem'.ledger, mem.ledger)
  <2>1. PICK last \in SegmentEnds(img), fails \in FaultPlans :
          mem' = Allocate(mem, FootprintRequest(img, last), Tracked, fails).mem
    BY <1>6 DEF ReserveImage
  <2>2. RequestOK(FootprintRequest(img, last)) /\ InSystem(FootprintRequest(img, last))
    BY RequestsOK, SystemRequests
  <2> QED BY <1>m, <2>1, <2>2, AllocateDescends
<1>7. CASE ProtectSegment
  <2> DEFINE seg == Head(load.left)
             start == AlignDown(load.base + seg.vaddr, PageSize)
             end == AlignUp(load.base + seg.vaddr + seg.memsz, PageSize)
  <2>1. load.base \in Addr /\ load.left \in Seq(Segments) /\ load.left # <<>>
    BY <1>m, <1>7 DEF ProtectSegment, HostOK
  <2>2. seg \in Segments
    BY <2>1
  <2>3. start \in Nat /\ end - start \in Nat /\ seg.perms \in Perms
    BY <2>1, <2>2, SegmentRangeOK
  <2>4. PICK fails \in FaultPlans :
          mem' = Protect(mem, start, end - start, seg.perms, fails).mem
    BY <1>7 DEF ProtectSegment, Report
  <2> HIDE DEF start, end, seg
  <2> QED BY <1>m, <2>3, <2>4, ProtectDescends
<1>8. ASSUME NEW m \in images, ProtectRelro(m) PROVE Descends(mem'.ledger, mem.ledger)
  <2>1. PICK i \in RelroSegments(m.img), fails \in FaultPlans :
          LET seg == m.img.segs[i]
              start == AlignDown(m.base + seg.vaddr, PageSize)
              end == AlignUp(m.base + seg.vaddr + seg.memsz, PageSize)
          IN  mem' = Protect(mem, start, end - start, {"r"}, fails).mem
    BY <1>8 DEF ProtectRelro, Report
  <2> DEFINE seg == m.img.segs[i]
             start == AlignDown(m.base + seg.vaddr, PageSize)
             end == AlignUp(m.base + seg.vaddr + seg.memsz, PageSize)
  <2>2. m.base \in Addr /\ m.img \in Images
    BY <1>m DEF HostOK
  <2>3. seg \in Segments
    <3>1. m.img.segs \in Seq(Segments)
      BY <2>2, GuestMemoryAssumption DEF ImageOK
    <3> QED BY <3>1 DEF RelroSegments
  <2>4. start \in Nat /\ end - start \in Nat
    BY <2>2, <2>3, SegmentRangeOK
  <2>5. mem' = Protect(mem, start, end - start, {"r"}, fails).mem
    BY <2>1
  <2> HIDE DEF start, end, seg
  <2> QED BY <1>m, <1>2, <2>4, <2>5, ProtectDescends
<1>9. CASE FinishLoad \/ CallAgain \/ CallReturns \/ UNCHANGED vars
  BY <1>u, <1>9 DEF FinishLoad, CallAgain, CallReturns, vars
<1>10. ASSUME NEW hint \in Hints, NEW len \in Lengths, NEW perms \in Prots,
              MmapAnonymous(hint, len, perms)
       PROVE  Descends(mem'.ledger, mem.ledger)
  <2>1. PICK fails \in FaultPlans :
          mem' = Allocate(mem, MmapRequest(hint, len, perms, "AnonymousMmap"), FALSE, fails).mem
    BY <1>10 DEF MmapAnonymous, Report
  <2>2. /\ RequestOK(MmapRequest(hint, len, perms, "AnonymousMmap"))
        /\ InSystem(MmapRequest(hint, len, perms, "AnonymousMmap"))
    BY RequestsOK, SystemRequests DEF Usages
  <2> QED BY <1>m, <2>1, <2>2, AllocateDescends
<1>11. ASSUME NEW addr \in GuestAddrs, NEW len \in Lengths, Munmap(addr, len)
       PROVE  Descends(mem'.ledger, mem.ledger)
  <2>1. PICK fails \in FaultPlans : mem' = Unmap(mem, addr, AlignLen(len), fails).mem
    BY <1>11 DEF Munmap, Report
  <2>2. addr \in Nat
    BY GuestMemoryAssumption, PageAssumption DEF Addr
  <2>3. \A s \in mem'.ledger : \E r \in mem.ledger : PartOf(s, r)
    BY <1>m, <2>1, <2>2, AlignLenOK, UnmapDescends
  <2> QED BY <2>3 DEF Descends
<1>12. ASSUME NEW addr \in GuestAddrs, NEW len \in Lengths, NEW perms \in Prots,
              Mprotect(addr, len, perms)
       PROVE  Descends(mem'.ledger, mem.ledger)
  <2>1. PICK fails \in FaultPlans : mem' = Protect(mem, addr, AlignLen(len), perms, fails).mem
    BY <1>12 DEF Mprotect, Report
  <2>2. addr \in Nat /\ perms \in Perms
    BY GuestMemoryAssumption, PageAssumption DEF Addr
  <2> QED BY <1>m, <2>1, <2>2, AlignLenOK, ProtectDescends
<1> QED BY <1>3, <1>4, <1>5, <1>6, <1>7, <1>8, <1>9, <1>10, <1>11, <1>12, MmapFdDescends
        DEF Next

(***************************************************************************)
(* Whatever layout and guest: what gap search placed stays in its arena,   *)
(* cut and rewritten any number of times.                                  *)
(***************************************************************************)
THEOREM ArenasKept == Spec => []DynamicInArena
<1>1. Init => DynamicInArena
  BY DEF Init, DynamicInArena, ScratchRegion
<1>2. IInv /\ DynamicInArena /\ [Next]_vars => DynamicInArena'
  <2> SUFFICES ASSUME IInv, DynamicInArena, [Next]_vars PROVE DynamicInArena'
    OBVIOUS
  <2>1. Descends(mem'.ledger, mem.ledger) /\ IInv'
    BY StepDescends, StepSound
  <2>2. ASSUME NEW s \in mem'.ledger PROVE InArena(s)
    <3>1. CASE \E r \in mem.ledger : PartOf(s, r)
      <4>1. PICK r \in mem.ledger : PartOf(s, r)
        BY <3>1
      <4>2. InArena(r)
        BY DEF DynamicInArena, InArena
      <4>3. /\ s.addr \in Int /\ s.size \in Int /\ r.addr \in Int /\ r.size \in Int
        BY <2>1, PageAssumption DEF IInv, Sound, MemOK, LedgerOK, Regions, Addr
      <4>4. ArenaOK(ElfArena) /\ ArenaOK(MmapArena)
        BY GuestMemoryAssumption
      <4> QED BY <4>1, <4>2, <4>3, <4>4, PageAssumption DEF InArena, PartOf, End, ArenaOK, Addr
    <3>2. CASE Fresh(mem.ledger, s)
      BY <3>2 DEF Fresh
    <3> QED BY <2>1, <3>1, <3>2 DEF Descends
  <2> QED BY <2>2 DEF DynamicInArena, InArena
<1>3. IInv /\ DynamicInArena /\ [Next]_vars => IInv' /\ DynamicInArena'
  BY <1>2, StepSound
<1> QED BY <1>1, <1>3, InitSound, PTL DEF Spec

(***************************************************************************)
(* Whatever range a call names: an address mapped before and after a step  *)
(* belongs to the same use and was placed the same way.                    *)
(***************************************************************************)
THEOREM IdentityKept == Spec => SplitKeepsIdentity
<1> DEFINE Kept == \A r \in mem.ledger, s \in mem'.ledger :
                     Overlaps(r, s.addr, s.size) => r.usage = s.usage /\ r.mode = s.mode
<1>1. IInv /\ [Next]_vars => Kept
  <2> SUFFICES ASSUME IInv, [Next]_vars, NEW r \in mem.ledger, NEW s \in mem'.ledger,
                      Overlaps(r, s.addr, s.size)
               PROVE  r.usage = s.usage /\ r.mode = s.mode
    OBVIOUS
  <2>1. Descends(mem'.ledger, mem.ledger) /\ IInv'
    BY StepDescends, StepSound
  <2>2. PICK t \in mem.ledger : PartOf(s, t)
    BY <2>1 DEF Descends, Fresh, Vacant
  <2>3. /\ s.addr \in Int /\ s.size \in Int /\ r.addr \in Int /\ r.size \in Int
        /\ t.addr \in Int /\ t.size \in Int
    BY <2>1, PageAssumption DEF IInv, Sound, MemOK, LedgerOK, Regions, Addr
  <2>4. Overlaps(r, t.addr, t.size)
    BY <2>2, <2>3 DEF Overlaps, PartOf, End
  <2>5. r = t
    BY <2>4 DEF IInv, Sound, Disjoint
  <2> QED BY <2>2, <2>5 DEF PartOf
<1> QED BY <1>1, Invariance, PTL DEF Spec, SplitKeepsIdentity
-----------------------------------------------------------------------------
(***************************************************************************)
(* Ledger and backend.  As long as every region begins and ends with a     *)
(* page, a page belongs to one region, and the backend is a mirror of the  *)
(* ledger: it holds the pages of the regions, with their permissions.      *)
(***************************************************************************)
OnPages(L) == \A r \in L : Aligned(r.addr, PageSize) /\ Aligned(End(r), PageSize)

Mirrors(m) ==
  /\ OnPages(m.ledger)
  /\ \A p \in DOMAIN m.backend : \E r \in m.ledger : p \in PagesOf(r.addr, r.size)
  /\ \A r \in m.ledger : \A p \in PagesOf(r.addr, r.size) : m.backend[p] = r.perms

(* The pages of a range that begins and ends with one are those in it.     *)
LEMMA WholePages ==
  ASSUME NEW a \in Int, NEW n \in Int, Aligned(a, PageSize), Aligned(a + n, PageSize),
         NEW p \in Pages
  PROVE  p \in PagesOf(a, n) <=> a <= p /\ p < a + n
<1>1. p \in Int /\ Aligned(p, PageSize)
  BY PageAssumption DEF Pages, Addr
<1>2. p < a => p + PageSize <= a
  BY <1>1, MultiplesApart, PageAssumption
<1> QED BY <1>1, <1>2, PageAssumption DEF PagesOf

LEMMA RoundAligned ==
  ASSUME NEW a \in Int, NEW n \in Nat \ {0}
  PROVE  Aligned(AlignDown(a, n), n) /\ Aligned(AlignUp(a, n), n)
<1>1. \A i \in Int : (i * n) % n = 0
  OBVIOUS
<1>2. \A b \in Int : b \div n \in Int
  OBVIOUS
<1> QED BY <1>1, <1>2 DEF Aligned, AlignDown, AlignUp

LEMMA AlignedThrough ==
  ASSUME NEW a \in Int, NEW n \in Nat \ {0}, NEW k \in Nat \ {0}, Aligned(a, n), Aligned(n, k)
  PROVE  Aligned(a, k)
<1>1. PICK i \in Int : a = i * n
  BY DEF Aligned
<1>2. PICK j \in Int : n = j * k
  BY DEF Aligned
<1>3. a = (i * j) * k /\ i * j \in Int
  BY <1>1, <1>2
<1>4. \A x \in Int : (x * k) % k = 0
  OBVIOUS
<1> QED BY <1>3, <1>4 DEF Aligned

(* The requests this system makes, and what they get.                      *)
Asks(req) == RequestOK(req) /\ InSystem(req) /\ req.align \in Nat \ {0}

LEMMA PlanOnPages ==
  ASSUME NEW L, NEW req, Asks(req), NEW r \in Plan(L, req)
  PROVE  Aligned(r.addr, PageSize) /\ Aligned(r.size, PageSize) /\ Aligned(End(r), PageSize)
<1> DEFINE size == AlignUp(req.size, PageSize)
<1>1. PICK a \in Placement(L, req, size) :
        /\ r = [addr |-> a, size |-> size, perms |-> req.perms,
                mode |-> req.mode, usage |-> req.usage]
        /\ Normal(req.align) /\ req.size > 0 /\ a \in Addr
  BY DEF Plan
<1>2. size \in Nat \ {0} /\ Aligned(size, PageSize)
  BY <1>1, RoundUpPositive, RoundAligned, PageAssumption DEF RequestOK, Asks
<1> HIDE DEF size
<1>3. a \in Int
  BY <1>1, PageAssumption DEF Addr
<1>4. Aligned(a, req.align)
  <2>1. CASE req.mode = "Reserved"
    BY <1>1, <2>1 DEF Placement
  <2>2. CASE req.mode # "Reserved"
    <3> DEFINE arena == IF req.usage = "ELFImage" THEN ElfArena ELSE MmapArena
    <3>1. req.hint = arena.start /\ req.arena = arena
      BY <2>2 DEF Asks, InSystem, RequestOK, Modes
    <3>2. ArenaOK(arena)
      BY GuestMemoryAssumption
    <3> HIDE DEF arena
    <3>3. a \in FirstFit(L, size, req.align, arena, arena.start)
      BY <1>1, <2>2, <3>1 DEF Placement
    <3> QED BY <1>2, <3>2, <3>3, FitInArena
  <2> QED BY <2>1, <2>2
<1>5. Aligned(a, PageSize)
  BY <1>1, <1>3, <1>4, AlignedThrough, PageAssumption DEF Normal, Asks
<1>6. r.addr = a /\ r.size = size /\ End(r) = a + size
  BY <1>1 DEF End
<1> QED BY <1>2, <1>3, <1>5, <1>6, SumAligned, PageAssumption

(* Allocation without a tracker: nothing, or a region and its pages.       *)
LEMMA AllocateGrows ==
  ASSUME NEW m, NEW req, NEW fails
  PROVE  LET a == Allocate(m, req, FALSE, fails)
         IN  /\ ~a.ok => a.mem = m
             /\ a.ok => \E x \in Plan(m.ledger, req) :
                  /\ a.mem.ledger = m.ledger \cup {x} /\ a.mem.tracker = m.tracker
                  /\ a.mem.backend = MapPages(m.backend, PagesOf(x.addr, x.size), x.perms)
                  /\ PagesOf(x.addr, x.size) \cap DOMAIN m.backend = {}
<1> DEFINE plan == Plan(m.ledger, req)
           r == CHOOSE x \in plan : TRUE
           pages == PagesOf(r.addr, r.size)
           grown == [ledger |-> m.ledger \cup {r}, backend |-> MapPages(m.backend, pages, r.perms),
                     tracker |-> m.tracker]
           a == Allocate(m, req, FALSE, fails)
<1>1. \/ a = Failed(m)
      \/ plan # {} /\ pages \cap DOMAIN m.backend = {} /\ a = Done(grown)
  BY DEF Allocate
<1>2. CASE a = Failed(m)
  <2> HIDE DEF a
  <2>1. a.mem = m /\ a.ok = FALSE
    BY <1>2 DEF Failed
  <2> QED BY <2>1 DEF a
<1>3. CASE plan # {} /\ pages \cap DOMAIN m.backend = {} /\ a = Done(grown)
  <2>1. r \in plan
    BY <1>3
  <2> HIDE DEF r, a
  <2>2. a.mem = grown /\ a.ok = TRUE
    BY <1>3 DEF Done
  <2>3. /\ a.mem.ledger = m.ledger \cup {r} /\ a.mem.tracker = m.tracker
        /\ a.mem.backend = MapPages(m.backend, pages, r.perms)
    BY <2>2
  <2> HIDE DEF pages, grown
  <2>4. PagesOf(r.addr, r.size) \cap DOMAIN m.backend = {}
    BY <1>3 DEF pages
  <2>5. \E x \in Plan(m.ledger, req) :
          /\ a.mem.ledger = m.ledger \cup {x} /\ a.mem.tracker = m.tracker
          /\ a.mem.backend = MapPages(m.backend, PagesOf(x.addr, x.size), x.perms)
          /\ PagesOf(x.addr, x.size) \cap DOMAIN m.backend = {}
    BY <2>1, <2>3, <2>4 DEF pages
  <2> QED BY <2>2, <2>5 DEF a
<1> HIDE DEF plan, r, pages, grown, a
<1> QED BY <1>1, <1>2, <1>3

(* Allocation keeps the mirror.                                            *)
LEMMA AllocateMirrors ==
  ASSUME NEW m, Sound(m), Mirrors(m), NEW req, Asks(req), NEW fails
  PROVE  Mirrors(Allocate(m, req, FALSE, fails).mem)
<1> DEFINE a == Allocate(m, req, FALSE, fails)
<1>1. /\ ~a.ok => a.mem = m
      /\ a.ok => \E x \in Plan(m.ledger, req) :
           /\ a.mem.ledger = m.ledger \cup {x} /\ a.mem.tracker = m.tracker
           /\ a.mem.backend = MapPages(m.backend, PagesOf(x.addr, x.size), x.perms)
           /\ PagesOf(x.addr, x.size) \cap DOMAIN m.backend = {}
  BY AllocateGrows
<1> HIDE DEF a
<1>2. CASE a.ok
  <2>1. PICK r \in Plan(m.ledger, req) :
          /\ a.mem.ledger = m.ledger \cup {r}
          /\ a.mem.backend = MapPages(m.backend, PagesOf(r.addr, r.size), r.perms)
          /\ PagesOf(r.addr, r.size) \cap DOMAIN m.backend = {}
    BY <1>1, <1>2
  <2> DEFINE pages == PagesOf(r.addr, r.size)
             backend == a.mem.backend
  <2>2. Aligned(r.addr, PageSize) /\ Aligned(End(r), PageSize)
    BY PlanOnPages
  <2>3. DOMAIN backend = DOMAIN m.backend \cup pages
    BY <2>1 DEF MapPages
  <2>4. \A p \in pages : backend[p] = r.perms
    BY <2>1 DEF MapPages
  <2>5. \A p \in DOMAIN m.backend : backend[p] = m.backend[p]
    BY <2>1 DEF MapPages
  <2> HIDE DEF backend
  <2>6. \A s \in m.ledger : PagesOf(s.addr, s.size) \subseteq DOMAIN m.backend
    BY DEF Sound, Backed
  <2>7. OnPages(m.ledger \cup {r})
    BY <2>2 DEF OnPages, Mirrors
  <2>8. ASSUME NEW p \in DOMAIN backend
        PROVE  \E s \in m.ledger \cup {r} : p \in PagesOf(s.addr, s.size)
    BY <2>3 DEF Mirrors
  <2>9. ASSUME NEW s \in m.ledger \cup {r}, NEW p \in PagesOf(s.addr, s.size)
        PROVE  backend[p] = s.perms
    <3>1. CASE s \in m.ledger
      BY <2>5, <2>6, <2>9, <3>1 DEF Mirrors
    <3>2. CASE s = r
      BY <2>4, <2>9, <3>2
    <3> QED BY <3>1, <3>2
  <2>10. a.mem.ledger = m.ledger \cup {r} /\ a.mem.backend = backend
    BY <2>1 DEF backend
  <2>11. Mirrors(a.mem)
    BY <2>7, <2>8, <2>9, <2>10 DEF Mirrors
  <2> QED BY <2>11 DEF a
<1>3. CASE ~a.ok
  <2>1. Mirrors(a.mem)
    BY <1>1, <1>3
  <2> QED BY <2>1 DEF a
<1> QED BY <1>2, <1>3

(* What Carve leaves, page by page: the pages of a region outside the      *)
(* range stay in a region with its permissions.                            *)
LEMMA CarveKeeps ==
  ASSUME NEW L, LedgerOK(L), NEW addr \in Nat, NEW size \in Nat \ {0},
         NEW r \in L, NEW p \in Int, r.addr <= p, p < End(r),
         p < addr \/ addr + size <= p
  PROVE  \E s \in Carve(L, addr, size) : s.addr <= p /\ p < End(s) /\ s.perms = r.perms
<1>1. r \in Regions /\ End(r) \in Addr /\ r.addr \in Addr
  BY DEF LedgerOK, Regions
<1>2. CASE ~Overlaps(r, addr, size)
  BY <1>2 DEF Carve
<1>3. CASE Overlaps(r, addr, size)
  <2>1. r \in Touched(L, addr, size) /\ addr < End(r) /\ r.addr < addr + size
    BY <1>3 DEF Touched, Overlaps
  <2>2. CASE p < addr
    <3> DEFINE s == Piece(r, r.addr, addr - r.addr)
    <3>1. addr - r.addr \in Addr \ {0} /\ r.addr < addr
      BY <1>1, <2>1, <2>2, PageAssumption DEF Addr
    <3>2. s \in Below(r, addr)
      BY <3>1 DEF Below
    <3>3. s.addr = r.addr /\ s.size = addr - r.addr /\ s.perms = r.perms
      BY <1>1, <3>1, Resize
    <3>4. s \in Carve(L, addr, size)
      BY <2>1, <3>2 DEF Carve
    <3> HIDE DEF s
    <3>5. End(s) = addr
      BY <1>1, <3>3, PageAssumption DEF End, Addr
    <3> QED BY <2>2, <3>3, <3>4, <3>5
  <2>3. CASE addr + size <= p
    <3> DEFINE s == Piece(r, addr + size, End(r) - (addr + size))
    <3>1. addr + size \in Addr /\ End(r) - (addr + size) \in Addr \ {0} /\ addr + size < End(r)
      BY <1>1, <2>1, <2>3, PageAssumption DEF Addr
    <3>2. s \in Above(r, addr + size)
      BY <3>1 DEF Above
    <3>3. s.addr = addr + size /\ s.size = End(r) - (addr + size) /\ s.perms = r.perms
      BY <1>1, <3>1, Resize
    <3>4. s \in Carve(L, addr, size)
      BY <2>1, <3>2 DEF Carve
    <3> HIDE DEF s
    <3>5. End(s) = End(r)
      <4>1. \A x, y \in Int : x + (y - x) = y
        OBVIOUS
      <4>2. End(r) \in Int /\ addr + size \in Int
        BY <1>1, PageAssumption DEF Addr
      <4>3. End(s) = (addr + size) + (End(r) - (addr + size))
        BY <3>3 DEF End
      <4> QED BY <4>1, <4>2, <4>3
    <3> QED BY <2>3, <3>3, <3>4, <3>5
  <2> QED BY <2>2, <2>3
<1> QED BY <1>2, <1>3

(* Cutting on page boundaries leaves regions on page boundaries.           *)
LEMMA CarveOnPages ==
  ASSUME NEW L, LedgerOK(L), OnPages(L), NEW addr \in Nat, NEW size \in Nat \ {0},
         Aligned(addr, PageSize), Aligned(addr + size, PageSize)
  PROVE  OnPages(Carve(L, addr, size))
<1> SUFFICES ASSUME NEW s \in Carve(L, addr, size)
             PROVE  Aligned(s.addr, PageSize) /\ Aligned(End(s), PageSize)
  BY DEF OnPages
<1>1. CASE s \in L
  BY <1>1 DEF OnPages
<1>2. CASE \E r \in Touched(L, addr, size) : s \in Below(r, addr)
  <2>1. PICK r \in Touched(L, addr, size) : s \in Below(r, addr)
    BY <1>2
  <2>2. r \in L /\ r \in Regions /\ End(r) \in Addr /\ addr < End(r)
    BY <2>1 DEF Touched, Overlaps, LedgerOK
  <2>3. End(s) = addr
    BY <2>1, <2>2, BelowSound
  <2>4. s.addr = r.addr
    BY <2>1, <2>2 DEF Below, Piece, Regions
  <2> QED BY <2>2, <2>3, <2>4 DEF OnPages
<1>3. CASE \E r \in Touched(L, addr, size) : s \in Above(r, addr + size)
  <2>1. PICK r \in Touched(L, addr, size) : s \in Above(r, addr + size)
    BY <1>3
  <2>2. r \in L /\ r \in Regions /\ End(r) \in Addr /\ r.addr < addr + size /\ addr + size \in Nat
    BY <2>1 DEF Touched, Overlaps, LedgerOK
  <2>3. s.addr = addr + size
    BY <2>1, <2>2, AboveSound
  <2>4. End(s) = End(r)
    <3>1. s.size = End(r) - (addr + size)
      BY <2>1, <2>2 DEF Above, Piece, Regions
    <3>2. \A x, y \in Int : x + (y - x) = y
      OBVIOUS
    <3>3. End(r) \in Int /\ addr + size \in Int
      BY <2>2, PageAssumption DEF Addr
    <3>4. End(s) = (addr + size) + (End(r) - (addr + size))
      BY <2>3, <3>1 DEF End
    <3> QED BY <3>2, <3>3, <3>4
  <2> QED BY <2>2, <2>3, <2>4 DEF OnPages
<1> QED BY <1>1, <1>2, <1>3 DEF Carve

(* The part of a touched region inside the range.                          *)
LEMMA InsideOnPages ==
  ASSUME NEW L, LedgerOK(L), OnPages(L), NEW addr \in Nat, NEW size \in Nat \ {0},
         Aligned(addr, PageSize), Aligned(addr + size, PageSize),
         NEW perms \in Perms, NEW r \in Touched(L, addr, size)
  PROVE  LET s == WithPerms(Inside(r, addr, addr + size), perms)
         IN  /\ Aligned(s.addr, PageSize) /\ Aligned(End(s), PageSize)
             /\ \A p \in Int : r.addr <= p /\ p < End(r) /\ addr <= p /\ p < addr + size
                             => s.addr <= p /\ p < End(s)
<1> DEFINE lo == IF addr < r.addr THEN r.addr ELSE addr
           hi == IF End(r) < addr + size THEN End(r) ELSE addr + size
           t == Inside(r, addr, addr + size)
           s == WithPerms(t, perms)
<1>1. r \in L /\ r \in Regions /\ End(r) \in Addr /\ Overlaps(r, addr, size)
  BY DEF Touched, LedgerOK
<1>2. lo \in Addr /\ hi - lo \in Addr \ {0} /\ hi \in Int
  BY <1>1, PageAssumption DEF Regions, Addr, End, Overlaps
<1>3. t = Piece(r, lo, hi - lo)
  BY DEF Inside
<1>4. Aligned(lo, PageSize) /\ Aligned(hi, PageSize)
  BY <1>1 DEF OnPages
<1>5. \A p \in Int : r.addr <= p /\ p < End(r) /\ addr <= p /\ p < addr + size => lo <= p /\ p < hi
  BY <1>1 DEF Regions
<1> HIDE DEF lo, hi
<1>6. t \in Regions /\ t.addr = lo /\ t.size = hi - lo
  BY <1>1, <1>2, <1>3, Resize
<1> HIDE DEF t
<1>7. s.addr = lo /\ s.size = hi - lo
  BY <1>6 DEF WithPerms, Regions
<1>8. End(s) = hi
  <2>1. \A x, y \in Int : x + (y - x) = y
    OBVIOUS
  <2>2. lo \in Int
    BY <1>2, PageAssumption DEF Addr
  <2>3. End(s) = lo + (hi - lo)
    BY <1>7 DEF End
  <2> QED BY <1>2, <2>1, <2>2, <2>3
<1> HIDE DEF s
<1>9. /\ Aligned(s.addr, PageSize) /\ Aligned(End(s), PageSize)
      /\ \A p \in Int : r.addr <= p /\ p < End(r) /\ addr <= p /\ p < addr + size
                      => s.addr <= p /\ p < End(s)
  BY <1>4, <1>5, <1>7, <1>8
<1> QED BY <1>9 DEF s, t

(* Changing the permissions of whole pages keeps the mirror.               *)
LEMMA ProtectMirrors ==
  ASSUME NEW m, Sound(m), Mirrors(m), NEW addr \in Nat, NEW size \in Nat,
         Aligned(addr, PageSize), Aligned(addr + size, PageSize), NEW perms \in Perms, NEW fails
  PROVE  Mirrors(Protect(m, addr, size, perms, fails).mem)
<1> DEFINE L2 == Rewrite(m.ledger, addr, size, perms)
           range == PagesOf(addr, size)
           B2 == MapPages(m.backend, range, perms)
           a == Protect(m, addr, size, perms, fails)
           new(r) == WithPerms(Inside(r, addr, addr + size), perms)
           C == Carve(m.ledger, addr, size)
           T == Touched(m.ledger, addr, size)
<1>1. \/ a = Failed(m)
      \/ /\ size # 0 /\ range \subseteq DOMAIN m.backend
         /\ a = Done([ledger |-> L2, backend |-> B2, tracker |-> m.tracker])
  BY DEF Protect
<1>2. CASE a = Failed(m)
  <2>1. a.mem = m
    BY <1>2 DEF Failed
  <2> HIDE DEF a
  <2>2. Mirrors(a.mem)
    BY <2>1
  <2> QED BY <2>2 DEF a
<1>3. CASE /\ size # 0 /\ range \subseteq DOMAIN m.backend
           /\ a = Done([ledger |-> L2, backend |-> B2, tracker |-> m.tracker])
  <2>0. a.mem.ledger = L2 /\ a.mem.backend = B2
    BY <1>3 DEF Done
  <2> HIDE DEF a
  <2>1. /\ LedgerOK(m.ledger) /\ OnPages(m.ledger)
        /\ BackendOK(m.backend) /\ Backed(m.ledger, m.backend)
    BY DEF Sound, MemOK, Mirrors
  <2>2. size \in Nat \ {0}
    BY <1>3
  <2>3. L2 = C \cup {new(r) : r \in T}
    BY DEF Rewrite
  <2>4. OnPages(C) /\ LedgerOK(C)
    BY <2>1, <2>2, CarveOnPages, CarveSound DEF Sound
  <2>5. \A r \in T : /\ Aligned(new(r).addr, PageSize) /\ Aligned(End(new(r)), PageSize)
                    /\ \A p \in Int : r.addr <= p /\ p < End(r) /\ addr <= p /\ p < addr + size
                                    => new(r).addr <= p /\ p < End(new(r))
    BY <2>1, <2>2, InsideOnPages
  <2>6. \A r \in T : /\ new(r) \in Regions /\ addr <= new(r).addr /\ End(new(r)) <= addr + size
                    /\ new(r).perms = perms
    BY <2>1, <2>2, NewParts
  <2>7. \A s \in C : \E r \in m.ledger :
          /\ PagesOf(s.addr, s.size) \subseteq PagesOf(r.addr, r.size) /\ s.perms = r.perms
          /\ PagesOf(s.addr, s.size) \cap range = {}
    <3> SUFFICES ASSUME NEW s \in C
                 PROVE  \E r \in m.ledger :
                          /\ PagesOf(s.addr, s.size) \subseteq PagesOf(r.addr, r.size)
                          /\ s.perms = r.perms /\ PagesOf(s.addr, s.size) \cap range = {}
      OBVIOUS
    <3>0. CutOff(s, m.ledger)
      <4>1. s \in Carve(m.ledger, addr, size)
        OBVIOUS
      <4> QED BY <2>1, <2>2, <4>1, CarvedFrom
    <3>1. PICK r \in m.ledger : s \in Regions /\ PartOf(s, r) /\ s.perms = r.perms
      BY <3>0 DEF CutOff
    <3>2. PagesOf(s.addr, s.size) \subseteq PagesOf(r.addr, r.size)
      BY <2>1, <3>1, PartPages DEF LedgerOK
    <3>3. PagesOf(s.addr, s.size) \cap range = {}
      BY <2>1, <2>2, CarvePages
    <3> QED BY <3>1, <3>2, <3>3
  <2>8. DOMAIN B2 = DOMAIN m.backend
    BY <1>3 DEF MapPages
  <2>9. \A p \in range : B2[p] = perms
    BY DEF MapPages
  <2>10. \A p \in DOMAIN m.backend \ range : B2[p] = m.backend[p]
    BY DEF MapPages
  <2> HIDE DEF B2, C, T, L2
  <2>11. OnPages(L2)
    BY <2>3, <2>4, <2>5 DEF OnPages
  <2>12. ASSUME NEW s \in L2 PROVE s \in Regions /\ s.addr \in Int /\ s.size \in Int
    BY <2>3, <2>4, <2>6, PageAssumption DEF LedgerOK, Regions, Addr
  <2>13. ASSUME NEW p \in DOMAIN B2 PROVE \E s \in L2 : p \in PagesOf(s.addr, s.size)
    <3>1. PICK r \in m.ledger : p \in PagesOf(r.addr, r.size)
      BY <2>8 DEF Mirrors
    <3>2. p \in Pages /\ p \in Int
      BY <2>1, <2>8, PageAssumption DEF BackendOK, Pages, Addr
    <3>3. r \in Regions /\ r.addr \in Int /\ r.size \in Int /\ End(r) = r.addr + r.size
      BY <2>1, PageAssumption DEF LedgerOK, Regions, Addr, End
    <3>4. r.addr <= p /\ p < End(r)
      BY <2>1, <3>1, <3>2, <3>3, WholePages DEF OnPages
    <3>5. \E s \in L2 : s.addr <= p /\ p < End(s)
      <4>1. CASE p < addr \/ addr + size <= p
        <5>1. \E s \in C : s.addr <= p /\ p < End(s)
          BY <2>1, <2>2, <3>2, <3>4, <4>1, CarveKeeps DEF C
        <5> QED BY <2>3, <5>1
      <4>2. CASE addr <= p /\ p < addr + size
        <5>1. r \in T
          BY <3>2, <3>3, <3>4, <4>2 DEF T, Touched, Overlaps
        <5>2. new(r).addr <= p /\ p < End(new(r))
          BY <2>5, <3>2, <3>4, <4>2, <5>1
        <5> HIDE DEF new
        <5> QED BY <2>3, <5>1, <5>2
      <4> QED BY <3>2, <4>1, <4>2
    <3>6. PICK s \in L2 : s.addr <= p /\ p < End(s)
      BY <3>5
    <3>7. Aligned(s.addr, PageSize) /\ Aligned(s.addr + s.size, PageSize)
      BY <2>11 DEF OnPages, End
    <3> QED BY <2>12, <3>2, <3>6, <3>7, WholePages DEF End
  <2>14. ASSUME NEW s \in L2, NEW p \in PagesOf(s.addr, s.size) PROVE B2[p] = s.perms
    <3>1. CASE s \in C
      <4>1. PICK r \in m.ledger :
              /\ PagesOf(s.addr, s.size) \subseteq PagesOf(r.addr, r.size) /\ s.perms = r.perms
              /\ PagesOf(s.addr, s.size) \cap range = {}
        BY <2>7, <3>1
      <4>2. p \in PagesOf(r.addr, r.size) /\ p \notin range /\ p \in DOMAIN m.backend
        BY <2>1, <2>14, <4>1 DEF Backed
      <4> QED BY <2>10, <4>1, <4>2 DEF Mirrors
    <3>2. CASE \E r \in T : s = new(r)
      <4>1. s \in Regions /\ addr <= s.addr /\ End(s) <= addr + size /\ s.perms = perms
        BY <2>6, <3>2
      <4>2. p \in range
        <5>1. p \in Pages /\ p \in Int /\ p < s.addr + s.size /\ s.addr < p + PageSize
          BY <2>14, PageAssumption DEF PagesOf, Pages, Addr
        <5>2. p < addr + size /\ addr < p + PageSize
          BY <2>12, <4>1, <5>1, PageAssumption DEF End
        <5> QED BY <5>1, <5>2 DEF PagesOf
      <4> QED BY <2>9, <4>1, <4>2
    <3> QED BY <2>3, <3>1, <3>2
  <2>15. Mirrors(a.mem)
    BY <2>0, <2>11, <2>13, <2>14 DEF Mirrors
  <2> QED BY <2>15 DEF a
<1> HIDE DEF a, L2, range, B2
<1> QED BY <1>1, <1>2, <1>3

(* Unmapping takes the pages from both.                                    *)
LEMMA UnmapMirrors ==
  ASSUME NEW m, Sound(m), Mirrors(m), NEW addr \in Nat, NEW size \in Nat, NEW fails
  PROVE  Mirrors(Unmap(m, addr, size, fails).mem)
<1> DEFINE C == Carve(m.ledger, addr, size)
           range == PagesOf(addr, size)
           B2 == UnmapPages(m.backend, range)
           a == Unmap(m, addr, size, fails)
<1>1. \/ a = Failed(m)
      \/ /\ size # 0 /\ Aligned(addr, PageSize) /\ Aligned(size, PageSize)
         /\ a = Done([ledger |-> C, backend |-> B2, tracker |-> m.tracker])
  BY DEF Unmap
<1>2. CASE a = Failed(m)
  <2>1. a.mem = m
    BY <1>2 DEF Failed
  <2> HIDE DEF a
  <2>2. Mirrors(a.mem)
    BY <2>1
  <2> QED BY <2>2 DEF a
<1>3. CASE /\ size # 0 /\ Aligned(addr, PageSize) /\ Aligned(size, PageSize)
           /\ a = Done([ledger |-> C, backend |-> B2, tracker |-> m.tracker])
  <2>0. a.mem.ledger = C /\ a.mem.backend = B2
    BY <1>3 DEF Done
  <2> HIDE DEF a
  <2>1. /\ LedgerOK(m.ledger) /\ OnPages(m.ledger)
        /\ BackendOK(m.backend) /\ Backed(m.ledger, m.backend)
    BY DEF Sound, MemOK, Mirrors
  <2>2. size \in Nat \ {0}
    BY <1>3
  <2>3. Aligned(addr + size, PageSize)
    BY <1>3, SumAligned, PageAssumption
  <2>4. OnPages(C) /\ LedgerOK(C)
    BY <1>3, <2>1, <2>2, <2>3, CarveOnPages, CarveSound DEF Sound
  <2>5. /\ DOMAIN B2 = DOMAIN m.backend \ range
        /\ \A p \in DOMAIN m.backend \ range : B2[p] = m.backend[p]
    BY DEF UnmapPages
  <2> HIDE DEF B2
  <2>6. ASSUME NEW p \in DOMAIN B2 PROVE \E s \in C : p \in PagesOf(s.addr, s.size)
    <3>1. PICK r \in m.ledger : p \in PagesOf(r.addr, r.size)
      BY <2>5 DEF Mirrors
    <3>2. p \in Pages /\ p \in Int
      BY <2>1, <2>5, PageAssumption DEF BackendOK, Pages, Addr
    <3>3. r \in Regions /\ r.addr \in Int /\ r.size \in Int /\ End(r) = r.addr + r.size
      BY <2>1, PageAssumption DEF LedgerOK, Regions, Addr, End
    <3>4. r.addr <= p /\ p < End(r)
      BY <2>1, <3>1, <3>2, <3>3, WholePages DEF OnPages
    <3>5. p < addr \/ addr + size <= p
      BY <1>3, <2>2, <2>3, <2>5, <3>2, WholePages
    <3>6. PICK s \in C : s.addr <= p /\ p < End(s)
      BY <2>1, <2>2, <3>2, <3>4, <3>5, CarveKeeps
    <3>7. /\ Aligned(s.addr, PageSize) /\ Aligned(s.addr + s.size, PageSize)
          /\ s.addr \in Int /\ s.size \in Int
      BY <2>4, PageAssumption DEF OnPages, End, LedgerOK, Regions, Addr
    <3> QED BY <3>2, <3>6, <3>7, WholePages DEF End
  <2>7. ASSUME NEW s \in C, NEW p \in PagesOf(s.addr, s.size) PROVE B2[p] = s.perms
    <3>0. CutOff(s, m.ledger)
      <4>1. s \in Carve(m.ledger, addr, size)
        BY <2>7
      <4> QED BY <2>1, <2>2, <4>1, CarvedFrom
    <3>1. PICK r \in m.ledger : s \in Regions /\ PartOf(s, r) /\ s.perms = r.perms
      BY <3>0 DEF CutOff
    <3>2. PagesOf(s.addr, s.size) \subseteq PagesOf(r.addr, r.size)
      BY <2>1, <3>1, PartPages DEF LedgerOK
    <3>3. PagesOf(s.addr, s.size) \cap range = {}
      BY <1>3, <2>1, <2>2, <2>3, CarvePages
    <3>4. p \in DOMAIN m.backend \ range
      BY <2>1, <2>7, <3>2, <3>3 DEF Backed
    <3> QED BY <2>5, <2>7, <3>1, <3>2, <3>4 DEF Mirrors
  <2>8. Mirrors(a.mem)
    BY <2>0, <2>4, <2>6, <2>7 DEF Mirrors
  <2> QED BY <2>8 DEF a
<1> HIDE DEF a, C, range, B2
<1> QED BY <1>1, <1>2, <1>3

(* The alignments asked for, and the lengths guest calls are rounded to.   *)
LEMMA MaxOfTwo ==
  ASSUME NEW a \in Nat \ {0}, NEW b \in Nat \ {0}
  PROVE  Max({a, b}) \in Nat \ {0}
<1>1. \E x \in {a, b} : \A y \in {a, b} : x >= y
  OBVIOUS
<1>2. Max({a, b}) \in {a, b}
  BY <1>1 DEF Max
<1> QED BY <1>2

LEMMA RequestsAsk ==
  /\ \A site, perms, usage :
       SiteOK(site) /\ perms \in Perms /\ usage \in Usages
         => Asks(Reserved(site.addr, site.size, perms, usage))
  /\ \A hint : \A len \in Lengths, perms \in Prots, usage \in Usages \ {"ELFImage"} :
       Asks(MmapRequest(hint, len, perms, usage))
  /\ \A img \in Images : \A last \in SegmentEnds(img) : Asks(FootprintRequest(img, last))
<1>1. ASSUME NEW site, NEW perms, NEW usage,
             SiteOK(site) /\ perms \in Perms /\ usage \in Usages
      PROVE  Asks(Reserved(site.addr, site.size, perms, usage))
  <2>1. Reserved(site.addr, site.size, perms, usage).align \in Nat \ {0}
    BY PageAssumption DEF Reserved
  <2> QED BY <1>1, <2>1, RequestsOK, SystemRequests DEF Asks
<1>2. ASSUME NEW hint, NEW len \in Lengths, NEW perms \in Prots, NEW usage \in Usages \ {"ELFImage"}
      PROVE  Asks(MmapRequest(hint, len, perms, usage))
  <2>1. MmapRequest(hint, len, perms, usage).align \in Nat \ {0}
    BY PageAssumption DEF MmapRequest, Reserved, Dynamic
  <2> QED BY <2>1, RequestsOK, SystemRequests DEF Asks
<1>3. ASSUME NEW img \in Images, NEW last \in SegmentEnds(img)
      PROVE  Asks(FootprintRequest(img, last))
  <2>1. img.align \in Nat \ {0}
    BY GuestMemoryAssumption DEF ImageOK
  <2>2. ImageAlign(img) \in Nat \ {0}
    BY <2>1, PageAssumption, MaxOfTwo DEF ImageAlign
  <2>3. FootprintRequest(img, last).align \in Nat \ {0}
    BY <2>2 DEF FootprintRequest, Dynamic
  <2> QED BY <2>3, RequestsOK, SystemRequests DEF Asks
<1> QED BY <1>1, <1>2, <1>3

LEMMA LenOnPages ==
  ASSUME NEW len \in Lengths
  PROVE  AlignLen(len) \in Nat /\ Aligned(AlignLen(len), PageSize)
<1>1. AlignLen(len) \in Nat
  BY AlignLenOK
<1>2. len \in Nat
  BY GuestMemoryAssumption, PageAssumption DEF Addr
<1>3. Aligned(PageSize, PageSize)
  BY PageAssumption DEF Aligned
<1>4. (len + PageSize - 1) % (MaxAddr + 1) \in Int
  BY <1>2, PageAssumption
<1>5. Aligned(AlignDown((len + PageSize - 1) % (MaxAddr + 1), PageSize), PageSize)
  BY <1>4, RoundAligned, PageAssumption
<1> QED BY <1>1, <1>3, <1>5 DEF AlignLen

LEMMA SegmentOnPages ==
  ASSUME NEW base \in Addr, NEW seg \in Segments
  PROVE  LET start == AlignDown(base + seg.vaddr, PageSize)
             end == AlignUp(base + seg.vaddr + seg.memsz, PageSize)
         IN  Aligned(start, PageSize) /\ Aligned(start + (end - start), PageSize)
<1> DEFINE start == AlignDown(base + seg.vaddr, PageSize)
           end == AlignUp(base + seg.vaddr + seg.memsz, PageSize)
<1>1. base + seg.vaddr \in Int /\ base + seg.vaddr + seg.memsz \in Int
  BY PageAssumption DEF Segments, Addr
<1>2. Aligned(start, PageSize) /\ Aligned(end, PageSize) /\ start \in Int /\ end \in Int
  BY <1>1, RoundAligned, Rounding, PageAssumption
<1> HIDE DEF start, end
<1>3. \A x, y \in Int : x + (y - x) = y
  OBVIOUS
<1>4. start + (end - start) = end
  BY <1>2, <1>3
<1>5. Aligned(start, PageSize) /\ Aligned(start + (end - start), PageSize)
  BY <1>2, <1>4
<1> QED BY <1>5 DEF start, end

(***************************************************************************)
(* Every step keeps the mirror, in the host whose materializer has no      *)
(* tracker and for guests that name page-aligned addresses.                *)
(***************************************************************************)
LEMMA StepMirrors ==
  ASSUME ~Tracked, \A a \in GuestAddrs : Aligned(a, PageSize),
         IInv, Mirrors(mem), [Next]_vars
  PROVE  Mirrors(mem')
<1>m. Sound(mem) /\ HostOK /\ Mirrors(mem)
  BY DEF IInv
<1>t. Tracked = FALSE
  BY GuestMemoryAssumption
<1>r. ASSUME NEW req, Asks(req), NEW fails, mem' = Allocate(mem, req, FALSE, fails).mem
      PROVE  Mirrors(mem')
  BY <1>m, <1>r, AllocateMirrors
<1>1. ASSUME NEW site, SiteOK(site), NEW perms \in Perms, NEW usage \in Usages, NEW fails,
             mem' = Allocate(mem, Reserved(site.addr, site.size, perms, usage), Tracked, fails).mem
      PROVE  Mirrors(mem')
  <2>1. Asks(Reserved(site.addr, site.size, perms, usage))
    BY <1>1, RequestsAsk
  <2> QED BY <1>r, <1>t, <1>1, <2>1
<1>2. /\ SiteOK(Jni) /\ SiteOK(Sentinel) /\ SiteOK(Stack)
      /\ {"r", "x"} \in Perms /\ {"r", "w"} \in Perms /\ {"r"} \in Perms
      /\ {"JNIEnv", "Trampoline", "Stack"} \subseteq Usages
  BY GuestMemoryAssumption DEF Perms, Usages
<1>3. CASE InitJni
  BY <1>1, <1>2, <1>3 DEF InitJni, Report
<1>4. CASE CallMapsSentinel
  BY <1>1, <1>2, <1>4 DEF CallMapsSentinel, Report
<1>5. CASE CallMapsStack
  BY <1>1, <1>2, <1>5 DEF CallMapsStack
<1>6. ASSUME NEW img \in Images, ReserveImage(img) PROVE Mirrors(mem')
  <2>1. PICK last \in SegmentEnds(img), fails \in FaultPlans :
          mem' = Allocate(mem, FootprintRequest(img, last), Tracked, fails).mem
    BY <1>6 DEF ReserveImage
  <2>2. Asks(FootprintRequest(img, last))
    BY RequestsAsk
  <2> QED BY <1>r, <1>t, <2>1, <2>2
<1>7. CASE ProtectSegment
  <2> DEFINE seg == Head(load.left)
             start == AlignDown(load.base + seg.vaddr, PageSize)
             end == AlignUp(load.base + seg.vaddr + seg.memsz, PageSize)
  <2>1. load.base \in Addr /\ load.left \in Seq(Segments) /\ load.left # <<>>
    BY <1>m, <1>7 DEF ProtectSegment, HostOK
  <2>2. seg \in Segments
    BY <2>1
  <2>3. start \in Nat /\ end - start \in Nat /\ seg.perms \in Perms
    BY <2>1, <2>2, SegmentRangeOK
  <2>4. Aligned(start, PageSize) /\ Aligned(start + (end - start), PageSize)
    BY <2>1, <2>2, SegmentOnPages
  <2>5. PICK fails \in FaultPlans :
          mem' = Protect(mem, start, end - start, seg.perms, fails).mem
    BY <1>7 DEF ProtectSegment, Report
  <2> HIDE DEF start, end, seg
  <2> QED BY <1>m, <2>3, <2>4, <2>5, ProtectMirrors
<1>8. ASSUME NEW m \in images, ProtectRelro(m) PROVE Mirrors(mem')
  <2>1. PICK i \in RelroSegments(m.img), fails \in FaultPlans :
          LET seg == m.img.segs[i]
              start == AlignDown(m.base + seg.vaddr, PageSize)
              end == AlignUp(m.base + seg.vaddr + seg.memsz, PageSize)
          IN  mem' = Protect(mem, start, end - start, {"r"}, fails).mem
    BY <1>8 DEF ProtectRelro, Report
  <2> DEFINE seg == m.img.segs[i]
             start == AlignDown(m.base + seg.vaddr, PageSize)
             end == AlignUp(m.base + seg.vaddr + seg.memsz, PageSize)
  <2>2. m.base \in Addr /\ m.img \in Images
    BY <1>m DEF HostOK
  <2>3. seg \in Segments
    <3>1. m.img.segs \in Seq(Segments)
      BY <2>2, GuestMemoryAssumption DEF ImageOK
    <3> QED BY <3>1 DEF RelroSegments
  <2>4. start \in Nat /\ end - start \in Nat
    BY <2>2, <2>3, SegmentRangeOK
  <2>5. Aligned(start, PageSize) /\ Aligned(start + (end - start), PageSize)
    BY <2>2, <2>3, SegmentOnPages
  <2>6. mem' = Protect(mem, start, end - start, {"r"}, fails).mem
    BY <2>1
  <2> HIDE DEF start, end, seg
  <2> QED BY <1>m, <1>2, <2>4, <2>5, <2>6, ProtectMirrors
<1>9. CASE FinishLoad \/ CallAgain \/ CallReturns \/ UNCHANGED vars
  BY <1>m, <1>9 DEF FinishLoad, CallAgain, CallReturns, vars
<1>10. ASSUME NEW hint \in Hints, NEW len \in Lengths, NEW perms \in Prots,
              MmapAnonymous(hint, len, perms)
       PROVE  Mirrors(mem')
  <2>1. PICK fails \in FaultPlans :
          mem' = Allocate(mem, MmapRequest(hint, len, perms, "AnonymousMmap"), FALSE, fails).mem
    BY <1>10 DEF MmapAnonymous, Report
  <2>2. Asks(MmapRequest(hint, len, perms, "AnonymousMmap"))
    BY RequestsAsk DEF Usages
  <2> QED BY <1>r, <2>1, <2>2
<1>11. ASSUME NEW usage \in Backings, NEW hint \in Hints, NEW len \in Lengths,
              NEW perms \in Prots, MmapFd(usage, hint, len, perms)
       PROVE  Mirrors(mem')
  <2> DEFINE req == MmapRequest(hint, len, perms, usage)
             r(fails) == Allocate(mem, req, FALSE, fails)
             new(fails) == CHOOSE x \in r(fails).mem.ledger \ mem.ledger : TRUE
  <2>1. PICK fails \in FaultPlans :
          IF r(fails).ok /\ "write" \in fails
            THEN mem' = Unmap(r(fails).mem, new(fails).addr, new(fails).size, fails).mem
            ELSE mem' = r(fails).mem
    BY <1>11 DEF MmapFd, Report
  <2> DEFINE a == r(fails)
             n == new(fails)
  <2>2. Asks(req) /\ RequestOK(req)
    <3>1. usage \in Usages \ {"ELFImage"}
      BY GuestMemoryAssumption DEF Usages
    <3> QED BY <3>1, RequestsAsk DEF Asks
  <2> HIDE DEF req
  <2>3. Mirrors(a.mem) /\ Sound(a.mem)
    <3>1. FALSE \in BOOLEAN
      OBVIOUS
    <3> QED BY <1>m, <2>2, <3>1, AllocateMirrors, AllocateSound
  <2>4. ASSUME a.ok PROVE n.addr \in Nat /\ n.size \in Nat
    <3>1. \A tracks \in BOOLEAN : Allocate(mem, req, tracks, fails).ok =>
            \E x \in Plan(mem.ledger, req) :
              x \notin mem.ledger
                /\ Allocate(mem, req, tracks, fails).mem.ledger = mem.ledger \cup {x}
      BY <1>m, <2>2, AllocateSound
    <3>2. PICK x \in Plan(mem.ledger, req) :
            x \notin mem.ledger /\ a.mem.ledger = mem.ledger \cup {x}
      BY <2>4, <3>1
    <3>3. x \in Regions
      BY <2>2, PlanSound
    <3>4. a.mem.ledger \ mem.ledger = {x}
      BY <3>2
    <3> HIDE DEF r
    <3>5. n = x
      BY <3>4
    <3> HIDE DEF new
    <3> QED BY <3>3, <3>5, PageAssumption DEF Regions, Addr
  <2>5. \/ a.ok /\ mem' = Unmap(a.mem, n.addr, n.size, fails).mem
        \/ mem' = a.mem
    BY <2>1
  <2> HIDE DEF r, new, a, n
  <2> QED BY <2>3, <2>4, <2>5, UnmapMirrors
<1>12. ASSUME NEW addr \in GuestAddrs, NEW len \in Lengths, Munmap(addr, len)
       PROVE  Mirrors(mem')
  <2>1. PICK fails \in FaultPlans : mem' = Unmap(mem, addr, AlignLen(len), fails).mem
    BY <1>12 DEF Munmap, Report
  <2>2. addr \in Nat
    BY GuestMemoryAssumption, PageAssumption DEF Addr
  <2> QED BY <1>m, <2>1, <2>2, AlignLenOK, UnmapMirrors
<1>13. ASSUME NEW addr \in GuestAddrs, NEW len \in Lengths, NEW perms \in Prots,
              Mprotect(addr, len, perms)
       PROVE  Mirrors(mem')
  <2>1. PICK fails \in FaultPlans : mem' = Protect(mem, addr, AlignLen(len), perms, fails).mem
    BY <1>13 DEF Mprotect, Report
  <2>2. addr \in Nat /\ perms \in Perms
    BY GuestMemoryAssumption, PageAssumption DEF Addr
  <2>3. Aligned(addr, PageSize) /\ AlignLen(len) \in Nat /\ Aligned(AlignLen(len), PageSize)
    BY LenOnPages
  <2>4. Aligned(addr + AlignLen(len), PageSize)
    BY <2>2, <2>3, SumAligned, PageAssumption
  <2> QED BY <1>m, <2>1, <2>2, <2>3, <2>4, ProtectMirrors
<1> QED BY <1>3, <1>4, <1>5, <1>6, <1>7, <1>8, <1>9, <1>10, <1>11, <1>12, <1>13 DEF Next

Mirrored == Mirrors(mem)

LEMMA InitMirrors == Init => Mirrored
<1> SUFFICES ASSUME Init PROVE Mirrors(mem)
  BY DEF Mirrored
<1>1. SiteOK(Scratch) /\ Scratch.addr \in Int /\ Scratch.size \in Int
  BY GuestMemoryAssumption, PageAssumption DEF SiteOK, Addr
<1>2. /\ ScratchRegion.addr = Scratch.addr /\ ScratchRegion.size = Scratch.size
      /\ ScratchRegion.perms = {"r", "w"} /\ End(ScratchRegion) = Scratch.addr + Scratch.size
  BY DEF ScratchRegion, End
<1>3. Aligned(Scratch.addr, PageSize) /\ Aligned(Scratch.addr + Scratch.size, PageSize)
  BY <1>1, SumAligned, PageAssumption DEF SiteOK
<1>4. /\ mem.ledger = {ScratchRegion}
      /\ mem.backend = [p \in PagesOf(Scratch.addr, Scratch.size) |-> {"r", "w"}]
  BY DEF Init
<1>5. OnPages(mem.ledger)
  BY <1>2, <1>3, <1>4 DEF OnPages
<1> QED BY <1>2, <1>4, <1>5 DEF Mirrors

(* The ledger's pages are the backend's by the first invariant, and the    *)
(* backend's are the ledger's by this one.                                 *)
LEMMA MirrorMeaning == IInv /\ Mirrored => BackendAgrees
<1> SUFFICES ASSUME IInv, Mirrors(mem) PROVE BackendAgrees
  BY DEF Mirrored
<1>1. FreeIsMappable
  BY DEF FreeIsMappable, Leaked, LedgerPages, Mirrors
<1>2. PermsAgree
  BY DEF PermsAgree, Mirrors
<1>3. LedgerBacked
  BY IInvMeaning
<1> QED BY <1>1, <1>2, <1>3 DEF BackendAgrees

(***************************************************************************)
(* The page table and the ledger hold the same pages with the same         *)
(* permissions, for every layout, page size and sequence of calls and      *)
(* failing backend operations.                                             *)
(* Two hypotheses.  The host is the Python one: in case-runner an          *)
(* allocation RegionTracker refuses leaves pages the ledger does not know. *)
(* And the guest passes page-aligned addresses to mprotect, as POSIX       *)
(* demands: the code does not check it and the ledger then records a range *)
(* that begins inside a page the backend protected whole.                  *)
(***************************************************************************)
THEOREM BackendIsMirror ==
  ASSUME ~Tracked, \A a \in GuestAddrs : Aligned(a, PageSize)
  PROVE  Spec => []BackendAgrees
<1>1. IInv /\ Mirrored /\ [Next]_vars => IInv' /\ Mirrored'
  BY StepMirrors, StepSound DEF Mirrored
<1>2. Init => IInv /\ Mirrored
  BY InitSound, InitMirrors
<1> QED BY <1>1, <1>2, MirrorMeaning, PTL DEF Spec
-----------------------------------------------------------------------------
(***************************************************************************)
(* Failed guest calls.  Two states of the memory are compared as wholes,   *)
(* so the invariant says that they are records with a page table in them.  *)
(***************************************************************************)
Shaped(m) ==
  /\ m = [ledger |-> m.ledger, backend |-> m.backend, tracker |-> m.tracker]
  /\ m.backend = [p \in DOMAIN m.backend |-> m.backend[p]]

LEMMA OperationsShape ==
  ASSUME NEW m, Shaped(m)
  PROVE  /\ \A req, tracks, fails : Shaped(Allocate(m, req, tracks, fails).mem)
         /\ \A addr, size, perms, fails : Shaped(Protect(m, addr, size, perms, fails).mem)
         /\ \A addr, size, fails : Shaped(Unmap(m, addr, size, fails).mem)
<1>1. ASSUME NEW L, NEW T, NEW pages, NEW perms
      PROVE  Shaped([ledger |-> L, backend |-> MapPages(m.backend, pages, perms), tracker |-> T])
  BY DEF MapPages, Shaped
<1>2. ASSUME NEW L, NEW T, NEW pages
      PROVE  Shaped([ledger |-> L, backend |-> UnmapPages(m.backend, pages), tracker |-> T])
  BY DEF UnmapPages, Shaped
<1>3. ASSUME NEW req, NEW tracks, NEW fails
      PROVE  Shaped(Allocate(m, req, tracks, fails).mem)
  <2> DEFINE a == Allocate(m, req, tracks, fails).mem
  <2>1. \/ a = m
        \/ \E L, T, pages, perms :
             a = [ledger |-> L, backend |-> MapPages(m.backend, pages, perms), tracker |-> T]
    BY DEF Allocate, Failed, Done
  <2> HIDE DEF a
  <2>2. Shaped(a)
    BY <1>1, <2>1
  <2> QED BY <2>2 DEF a
<1>4. ASSUME NEW addr, NEW size, NEW perms, NEW fails
      PROVE  Shaped(Protect(m, addr, size, perms, fails).mem)
  <2> DEFINE a == Protect(m, addr, size, perms, fails).mem
  <2>1. \/ a = m
        \/ \E L, T, pages :
             a = [ledger |-> L, backend |-> MapPages(m.backend, pages, perms), tracker |-> T]
    BY DEF Protect, Failed, Done
  <2> HIDE DEF a
  <2>2. Shaped(a)
    BY <1>1, <2>1
  <2> QED BY <2>2 DEF a
<1>5. ASSUME NEW addr, NEW size, NEW fails
      PROVE  Shaped(Unmap(m, addr, size, fails).mem)
  <2> DEFINE a == Unmap(m, addr, size, fails).mem
  <2>1. \/ a = m
        \/ \E L, T, pages :
             a = [ledger |-> L, backend |-> UnmapPages(m.backend, pages), tracker |-> T]
    BY DEF Unmap, Failed, Done
  <2> HIDE DEF a
  <2>2. Shaped(a)
    BY <1>2, <2>1
  <2> QED BY <2>2 DEF a
<1> QED BY <1>3, <1>4, <1>5

LEMMA StepShapes == Shaped(mem) /\ [Next]_vars => Shaped(mem')
<1> SUFFICES ASSUME Shaped(mem), [Next]_vars PROVE Shaped(mem')
  OBVIOUS
<1>1. \/ mem' = mem
      \/ \E req, tracks, fails : mem' = Allocate(mem, req, tracks, fails).mem
      \/ \E addr, size, perms, fails : mem' = Protect(mem, addr, size, perms, fails).mem
      \/ \E addr, size, fails : mem' = Unmap(mem, addr, size, fails).mem
      \/ \E req, tracks, fails, addr, size :
           mem' = Unmap(Allocate(mem, req, tracks, fails).mem, addr, size, fails).mem
  <2>1. CASE InitJni \/ CallMapsSentinel \/ CallMapsStack
    BY <2>1 DEF InitJni, CallMapsSentinel, CallMapsStack, Report
  <2>2. ASSUME NEW img \in Images, ReserveImage(img)
        PROVE  \E req, tracks, fails : mem' = Allocate(mem, req, tracks, fails).mem
    BY <2>2 DEF ReserveImage
  <2>3. ASSUME NEW hint \in Hints, NEW len \in Lengths, NEW perms \in Prots,
               MmapAnonymous(hint, len, perms)
        PROVE  \E req, tracks, fails : mem' = Allocate(mem, req, tracks, fails).mem
    BY <2>3 DEF MmapAnonymous, Report
  <2>4. ASSUME NEW usage \in Backings, NEW hint \in Hints, NEW len \in Lengths,
               NEW perms \in Prots, MmapFd(usage, hint, len, perms)
        PROVE  \/ \E req, tracks, fails : mem' = Allocate(mem, req, tracks, fails).mem
               \/ \E req, tracks, fails, addr, size :
                    mem' = Unmap(Allocate(mem, req, tracks, fails).mem, addr, size, fails).mem
    BY <2>4 DEF MmapFd, Report
  <2>5. CASE ProtectSegment \/ \E m \in images : ProtectRelro(m)
    BY <2>5 DEF ProtectSegment, ProtectRelro, Report
  <2>6. ASSUME NEW addr \in GuestAddrs, NEW len \in Lengths, NEW perms \in Prots,
               Mprotect(addr, len, perms)
        PROVE  \E a, size, p, fails : mem' = Protect(mem, a, size, p, fails).mem
    BY <2>6 DEF Mprotect, Report
  <2>7. ASSUME NEW addr \in GuestAddrs, NEW len \in Lengths, Munmap(addr, len)
        PROVE  \E a, size, fails : mem' = Unmap(mem, a, size, fails).mem
    BY <2>7 DEF Munmap, Report
  <2>8. CASE FinishLoad \/ CallAgain \/ CallReturns \/ UNCHANGED vars
    BY <2>8 DEF FinishLoad, CallAgain, CallReturns, vars
  <2> QED BY <2>1, <2>2, <2>3, <2>4, <2>5, <2>6, <2>7, <2>8 DEF Next
<1>2. ASSUME NEW req, NEW tracks, NEW fails, NEW addr, NEW size,
             mem' = Unmap(Allocate(mem, req, tracks, fails).mem, addr, size, fails).mem
      PROVE  Shaped(mem')
  <2>1. Shaped(Allocate(mem, req, tracks, fails).mem)
    BY OperationsShape
  <2> QED BY <1>2, <2>1, OperationsShape
<1> QED BY <1>1, <1>2, OperationsShape

(* Taking out what was just put in: the ledger and the pages are the old.  *)
LEMMA UndoLedger ==
  ASSUME NEW L, NEW x \in Regions, Vacant(L, x.addr, x.size), x \notin L
  PROVE  Carve(L \cup {x}, x.addr, x.size) = L
<1>1. x.addr \in Int /\ x.size \in Int /\ x.size > 0
  BY PageAssumption DEF Regions, Addr
<1>2. Overlaps(x, x.addr, x.size)
  BY <1>1 DEF Overlaps, End
<1>3. \A r \in L : ~Overlaps(r, x.addr, x.size)
  BY DEF Vacant
<1>4. Touched(L \cup {x}, x.addr, x.size) = {x}
  BY <1>2, <1>3 DEF Touched
<1>5. {r \in L \cup {x} : ~Overlaps(r, x.addr, x.size)} = L
  BY <1>2, <1>3
<1>6. Below(x, x.addr) = {} /\ Above(x, x.addr + x.size) = {}
  BY <1>1 DEF Below, Above, End
<1> QED BY <1>4, <1>5, <1>6 DEF Carve

LEMMA UndoPages ==
  ASSUME NEW B, B = [p \in DOMAIN B |-> B[p]], NEW P, P \cap DOMAIN B = {}, NEW perms
  PROVE  UnmapPages(MapPages(B, P, perms), P) = B
<1> DEFINE M == MapPages(B, P, perms)
<1>1. DOMAIN M = DOMAIN B \cup P /\ \A p \in DOMAIN B : M[p] = B[p]
  BY DEF MapPages
<1> HIDE DEF M
<1>2. UnmapPages(M, P) = [p \in DOMAIN B |-> B[p]]
  BY <1>1 DEF UnmapPages
<1> QED BY <1>2 DEF M

LEMMA UndoMap ==
  ASSUME NEW m, Sound(m), Shaped(m), NEW req, Asks(req), NEW fails, "unmap" \notin fails,
         Allocate(m, req, FALSE, fails).ok
  PROVE  LET a == Allocate(m, req, FALSE, fails)
             x == CHOOSE y \in a.mem.ledger \ m.ledger : TRUE
         IN  Unmap(a.mem, x.addr, x.size, fails).mem = m
<1> DEFINE L == m.ledger
           g == Allocate(m, req, FALSE, fails).mem
           x == CHOOSE y \in g.ledger \ L : TRUE
<1>1. PICK r \in Plan(L, req) :
        /\ g.ledger = L \cup {r} /\ g.tracker = m.tracker
        /\ g.backend = MapPages(m.backend, PagesOf(r.addr, r.size), r.perms)
        /\ PagesOf(r.addr, r.size) \cap DOMAIN m.backend = {}
  BY AllocateGrows
<1> HIDE DEF g
<1>2. RequestOK(req) /\ LedgerOK(L) /\ Disjoint(L)
  BY DEF Sound, MemOK, Asks
<1>3. r \in Regions /\ End(r) \in Addr /\ Vacant(L, r.addr, r.size)
  BY <1>2, PlanSound
<1>4. r \notin L
  BY <1>2, <1>3, AddVacant
<1>5. x = r
  <2>1. g.ledger \ L = {r}
    BY <1>1, <1>4
  <2> QED BY <2>1
<1> HIDE DEF x
<1>6. r.size # 0 /\ Aligned(r.addr, PageSize) /\ Aligned(r.size, PageSize)
  BY <1>3, PlanOnPages DEF Regions
<1>7. FullyMapped(g.ledger, r.addr, r.size)
  BY <1>1, <1>3 DEF FullyMapped, Covered, End
<1>8. PagesOf(r.addr, r.size) \subseteq DOMAIN g.backend
  BY <1>1 DEF MapPages
<1> DEFINE undone == [ledger |-> Carve(g.ledger, r.addr, r.size),
                      backend |-> UnmapPages(g.backend, PagesOf(r.addr, r.size)),
                      tracker |-> g.tracker]
<1>9. Unmap(g, r.addr, r.size, fails) = Done(undone)
  BY <1>6, <1>7, <1>8 DEF Unmap
<1>10. Carve(g.ledger, r.addr, r.size) = L
  BY <1>1, <1>3, <1>4, UndoLedger
<1>11. UnmapPages(g.backend, PagesOf(r.addr, r.size)) = m.backend
  <2>1. m.backend = [p \in DOMAIN m.backend |-> m.backend[p]]
    BY DEF Shaped
  <2>2. UnmapPages(MapPages(m.backend, PagesOf(r.addr, r.size), r.perms),
                   PagesOf(r.addr, r.size)) = m.backend
    BY <1>1, <2>1, UndoPages
  <2> QED BY <1>1, <2>2
<1>12. undone = m
  BY <1>1, <1>10, <1>11 DEF Shaped
<1> HIDE DEF undone
<1>13. Unmap(g, x.addr, x.size, fails).mem = m
  BY <1>5, <1>9, <1>12 DEF Done
<1> QED BY <1>13 DEF g, x

(***************************************************************************)
(* A failed step of the guest changes nothing.                             *)
(***************************************************************************)
LEMMA FailedStep ==
  ASSUME "unmap" \notin Faults, IInv, Shaped(mem), [Next]_vars,
         host = "guest", result' = "err"
  PROVE  mem' = mem
<1>1. CASE CallReturns \/ UNCHANGED vars
  BY <1>1 DEF CallReturns, vars
<1>2. ASSUME NEW hint \in Hints, NEW len \in Lengths, NEW perms \in Prots,
             MmapAnonymous(hint, len, perms)
      PROVE  mem' = mem
  <2> DEFINE a(fails) == Allocate(mem, MmapRequest(hint, len, perms, "AnonymousMmap"), FALSE, fails)
  <2>1. PICK fails \in FaultPlans : Report(a(fails))
    BY <1>2 DEF MmapAnonymous
  <2>2. ~a(fails).ok => a(fails).mem = mem
    BY AllocateGrows
  <2> HIDE DEF a
  <2> QED BY <2>1, <2>2 DEF Report
<1>3. ASSUME NEW usage \in Backings, NEW hint \in Hints, NEW len \in Lengths,
             NEW perms \in Prots, MmapFd(usage, hint, len, perms)
      PROVE  mem' = mem
  <2> DEFINE req == MmapRequest(hint, len, perms, usage)
             r(fails) == Allocate(mem, req, FALSE, fails)
             new(fails) == CHOOSE x \in r(fails).mem.ledger \ mem.ledger : TRUE
  <2>1. PICK fails \in FaultPlans :
          IF r(fails).ok /\ "write" \in fails
            THEN mem' = Unmap(r(fails).mem, new(fails).addr, new(fails).size, fails).mem
            ELSE Report(r(fails))
    BY <1>3 DEF MmapFd
  <2>2. "unmap" \notin fails
    BY DEF FaultPlans
  <2>3. Asks(req) /\ Sound(mem)
    <3>1. usage \in Usages \ {"ELFImage"}
      BY GuestMemoryAssumption DEF Usages
    <3> QED BY <3>1, RequestsAsk DEF IInv
  <2> HIDE DEF req
  <2>4. ~r(fails).ok => r(fails).mem = mem
    BY AllocateGrows
  <2>5. r(fails).ok => Unmap(r(fails).mem, new(fails).addr, new(fails).size, fails).mem = mem
    BY <2>2, <2>3, UndoMap
  <2>6. \/ r(fails).ok /\ mem' = Unmap(r(fails).mem, new(fails).addr, new(fails).size, fails).mem
        \/ Report(r(fails))
    BY <2>1
  <2> HIDE DEF r, new
  <2> QED BY <2>4, <2>5, <2>6 DEF Report
<1>4. ASSUME NEW addr \in GuestAddrs, NEW len \in Lengths, Munmap(addr, len)
      PROVE  mem' = mem
  <2>1. PICK fails \in FaultPlans : Report(Unmap(mem, addr, AlignLen(len), fails))
    BY <1>4 DEF Munmap
  <2> DEFINE a == Unmap(mem, addr, AlignLen(len), fails)
  <2>2. a = Failed(mem) \/ \E m : a = Done(m)
    BY DEF Unmap
  <2> HIDE DEF a
  <2>3. ~a.ok => a.mem = mem
    BY <2>2 DEF Failed, Done
  <2> QED BY <2>1, <2>3 DEF Report, a
<1>5. ASSUME NEW addr \in GuestAddrs, NEW len \in Lengths, NEW perms \in Prots,
             Mprotect(addr, len, perms)
      PROVE  mem' = mem
  <2>1. PICK fails \in FaultPlans : Report(Protect(mem, addr, AlignLen(len), perms, fails))
    BY <1>5 DEF Mprotect
  <2> DEFINE a == Protect(mem, addr, AlignLen(len), perms, fails)
  <2>2. a = Failed(mem) \/ \E m : a = Done(m)
    BY DEF Protect
  <2> HIDE DEF a
  <2>3. ~a.ok => a.mem = mem
    BY <2>2 DEF Failed, Done
  <2> QED BY <2>1, <2>3 DEF Report, a
<1>6. \/ host # "guest" \/ CallReturns \/ UNCHANGED vars
      \/ \E hint \in Hints, len \in Lengths, perms \in Prots : MmapAnonymous(hint, len, perms)
      \/ \E usage \in Backings, hint \in Hints, len \in Lengths, perms \in Prots :
           MmapFd(usage, hint, len, perms)
      \/ \E addr \in GuestAddrs, len \in Lengths : Munmap(addr, len)
      \/ \E addr \in GuestAddrs, len \in Lengths, perms \in Prots : Mprotect(addr, len, perms)
  BY DEF Next, InitJni, ReserveImage, ProtectSegment, FinishLoad, ProtectRelro,
         CallMapsSentinel, CallMapsStack, CallAgain
<1> QED BY <1>1, <1>2, <1>3, <1>4, <1>5, <1>6

MemShaped == Shaped(mem)

(***************************************************************************)
(* A guest call that reports failure has changed nothing, in both hosts    *)
(* and for every layout: an allocation or rewrite the backend refuses      *)
(* leaves no entry, and when the content of a mapping cannot be written    *)
(* the mapping is undone to the page.  The hypothesis is that the backend  *)
(* can unmap what it mapped: the code ignores the result of that unmap.    *)
(***************************************************************************)
THEOREM FailedSyscallsAreClean ==
  ASSUME "unmap" \notin Faults
  PROVE  Spec => FailedSyscallIsClean
<1> DEFINE Clean == host = "guest" /\ result' = "err" => mem' = mem
<1>1. Init => MemShaped
  BY DEF Init, MemShaped, Shaped
<1>2. MemShaped /\ [Next]_vars => MemShaped'
  BY StepShapes DEF MemShaped
<1>3. IInv /\ MemShaped /\ [Next]_vars => Clean
  BY FailedStep DEF MemShaped
<1> QED BY <1>1, <1>2, <1>3, Invariance, PTL DEF Spec, FailedSyscallIsClean
-----------------------------------------------------------------------------
(***************************************************************************)
(* The gap search.  Every theorem above takes the address of a dynamic     *)
(* region from FirstFit; the code finds it with a cursor that walks the    *)
(* regions in address order.  GapSearch is that walk, step by step.        *)
(***************************************************************************)
LEMMA FitsMeaning ==
  ASSUME NEW L, NEW n \in Nat, NEW k, NEW ar, ar.start \in Nat, ar.end \in Nat, NEW from \in Nat,
         NEW a
  PROVE  a \in Fits(L, n, k, ar, from) <=>
           /\ a \in Nat /\ from <= a /\ ar.start <= a /\ a + n <= ar.end
           /\ Aligned(a, k) /\ Vacant(L, a, n)
<1> DEFINE lo == Max({from, ar.start})
<1>1. \E x \in {from, ar.start} : \A y \in {from, ar.start} : x >= y
  OBVIOUS
<1>2. lo \in {from, ar.start} /\ lo >= from /\ lo >= ar.start
  BY <1>1 DEF Max
<1>3. lo \in Nat
  BY <1>2
<1> HIDE DEF lo
<1>4. a \in lo..(ar.end - n) <=> a \in Nat /\ from <= a /\ ar.start <= a /\ a + n <= ar.end
  BY <1>2, <1>3
<1>5. Fits(L, n, k, ar, from) = {x \in lo..(ar.end - n) : Aligned(x, k) /\ Vacant(L, x, n)}
  BY DEF Fits, lo
<1> QED BY <1>4, <1>5

(* Rounding up passes no aligned address.                                  *)
LEMMA UpLeast ==
  ASSUME NEW n \in Nat \ {0}, NEW b \in Int, NEW a \in Int, Aligned(a, n), b <= a
  PROVE  AlignUp(b, n) <= a
<1>1. AlignUp(b, n) \in Int /\ Aligned(AlignUp(b, n), n)
  BY RoundAligned, Rounding
<1>2. AlignUp(b, n) <= b + n - 1
  BY Rounding DEF AlignUp
<1>3. a < AlignUp(b, n) => a + n <= AlignUp(b, n)
  BY <1>1, MultiplesApart
<1> QED BY <1>1, <1>2, <1>3

LEMMA FirstIs ==
  ASSUME NEW S, S \subseteq Regions, S # {}
  PROVE  /\ LowestRegion(S) \in S
         /\ \A s \in S : LowestRegion(S).addr <= s.addr
<1> DEFINE A == {s.addr : s \in S}
<1>1. A \in SUBSET Nat /\ A # {}
  BY PageAssumption DEF Regions, Addr
<1>2. Min(A) \in A /\ \A y \in A : Min(A) <= y
  <2> HIDE DEF A
  <2> QED BY <1>1, MinMember
<1>3. PICK r \in S : r.addr = Min(A)
  BY <1>2
<1>4. \E x \in S : \A s \in S : x.addr <= s.addr
  BY <1>2, <1>3
<1> QED BY <1>4 DEF LowestRegion

(* The holes an answer may be taken from; where the search began.          *)
Holes(from) == Fits(asked.ledger, asked.size, asked.align, asked.arena, from)

From == IF fromHint THEN asked.hint ELSE asked.arena.start

InputTyped ==
  /\ asked.ledger \subseteq Regions /\ next \subseteq asked.ledger
  /\ asked.arena.start \in Nat /\ asked.arena.end \in Nat /\ asked.hint \in Nat
  /\ asked.size \in Nat \ {0} /\ asked.align \in Nat \ {0}
  /\ fromHint \in BOOLEAN

(* No hole lies below the cursor, and the regions behind it are passed.    *)
Walked ==
  /\ cursor \in Nat /\ Aligned(cursor, asked.align) /\ From <= cursor /\ asked.arena.start <= cursor
  /\ \A a \in Holes(From) : cursor <= a
  /\ \A r \in asked.ledger \ next : End(r) <= cursor \/ asked.arena.end <= cursor

(* Which of its two searches find_gap is in.                               *)
Tried ==
  IF fromHint THEN asked.hint < asked.arena.end
              ELSE asked.arena.end <= asked.hint \/ Holes(asked.hint) = {}

SearchInv ==
  /\ InputTyped
  /\ answer = {} => Walked /\ Tried
  /\ ComputesFirstFit

LEMMA StartWalks ==
  ASSUME NEW from \in Nat, InputTyped
  PROVE  LET c == AlignUp(Max({from, asked.arena.start}), asked.align)
         IN  /\ c \in Nat /\ Aligned(c, asked.align) /\ from <= c /\ asked.arena.start <= c
             /\ \A a \in Holes(from) : c <= a
<1> DEFINE lo == Max({from, asked.arena.start})
           c == AlignUp(lo, asked.align)
<1>1. /\ asked.arena.start \in Nat /\ asked.arena.end \in Nat
      /\ asked.size \in Nat /\ asked.align \in Nat \ {0}
  BY DEF InputTyped
<1>2. \E x \in {from, asked.arena.start} : \A y \in {from, asked.arena.start} : x >= y
  BY <1>1
<1>3. lo \in {from, asked.arena.start} /\ lo >= from /\ lo >= asked.arena.start
  BY <1>2 DEF Max
<1>4. lo \in Nat
  BY <1>1, <1>3
<1> HIDE DEF lo
<1>5. c \in Int /\ lo <= c /\ Aligned(c, asked.align)
  <2>1. ASSUME NEW k \in Nat \ {0}
        PROVE  AlignUp(lo, k) \in Int /\ lo <= AlignUp(lo, k) /\ Aligned(AlignUp(lo, k), k)
    BY <1>4, Rounding, RoundAligned
  <2> QED BY <1>1, <2>1
<1>6. ASSUME NEW a \in Holes(from) PROVE c <= a
  <2>1. a \in Nat /\ from <= a /\ asked.arena.start <= a /\ Aligned(a, asked.align)
    BY <1>1, FitsMeaning DEF Holes
  <2>2. lo <= a
    BY <1>3, <2>1
  <2> QED BY <1>1, <1>4, <2>1, <2>2, UpLeast
<1> HIDE DEF c
<1>7. c \in Nat /\ from <= c /\ asked.arena.start <= c
  BY <1>1, <1>3, <1>4, <1>5
<1> QED BY <1>5, <1>6, <1>7 DEF lo, c

(* The lowest hole is the answer; without one there is none.               *)
LEMMA LowestIs ==
  ASSUME NEW F \in SUBSET Nat, NEW c \in F, \A a \in F : c <= a
  PROVE  Lowest(F) = {c}
<1>1. Min(F) \in F /\ \A a \in F : Min(F) <= a
  BY MinMember
<1>2. Min(F) = c
  <2> DEFINE low == Min(F)
  <2>1. low \in Nat /\ c \in Nat /\ low <= c /\ c <= low
    BY <1>1
  <2> HIDE DEF low
  <2> QED BY <2>1 DEF low
<1> QED BY <1>2 DEF Lowest

LEMMA HolesAreNat == ASSUME InputTyped, NEW from \in Nat PROVE Holes(from) \in SUBSET Nat
<1>1. asked.arena.start \in Nat /\ asked.arena.end \in Nat /\ asked.size \in Nat
  BY DEF InputTyped
<1> QED BY <1>1, FitsMeaning DEF Holes

(* A cursor with room before every region left to visit is a hole.         *)
LEMMA RoomIsHole ==
  ASSUME InputTyped, Walked, cursor + asked.size <= asked.arena.end,
         \A r \in next : cursor + asked.size <= r.addr
  PROVE  cursor \in Holes(From)
<1>1. /\ asked.arena.start \in Nat /\ asked.arena.end \in Nat
      /\ asked.size \in Nat /\ asked.size > 0
      /\ cursor \in Nat /\ From \in Nat
  BY DEF InputTyped, Walked, From
<1>2. ASSUME NEW r \in asked.ledger PROVE ~Overlaps(r, cursor, asked.size)
  <2>1. r.addr \in Nat /\ End(r) \in Int
    BY PageAssumption DEF InputTyped, Regions, Addr, End
  <2>2. CASE r \in next
    BY <1>1, <2>1, <2>2 DEF Overlaps
  <2>3. CASE r \notin next
    BY <1>1, <2>1, <2>3 DEF Overlaps, Walked
  <2> QED BY <2>2, <2>3
<1>3. Vacant(asked.ledger, cursor, asked.size)
  BY <1>2 DEF Vacant
<1> QED BY <1>1, <1>3, FitsMeaning DEF Holes, Walked

(* The answers of both searches, once From is settled.                     *)
LEMMA FoundFits ==
  ASSUME InputTyped, Walked, Tried, cursor \in Holes(From)
  PROVE  Expected = {cursor}
<1>1. From \in Nat /\ asked.hint \in Nat /\ asked.arena.start \in Nat /\ asked.arena.end \in Nat
  BY DEF InputTyped, From
<1>2. Lowest(Holes(From)) = {cursor}
  BY <1>1, HolesAreNat, LowestIs DEF Walked
<1>3. CASE fromHint
  BY <1>2, <1>3 DEF Expected, FirstFit, From, Holes, Tried
<1>4. CASE ~fromHint
  BY <1>1, <1>2, <1>4 DEF Expected, FirstFit, From, Holes, Tried
<1> QED BY <1>3, <1>4

LEMMA NoneFits ==
  ASSUME InputTyped, ~fromHint, Tried, Holes(asked.arena.start) = {}
  PROVE  Expected = {}
<1>1. asked.hint \in Nat /\ asked.arena.end \in Nat
  BY DEF InputTyped
<1> QED BY <1>1 DEF Expected, FirstFit, Holes, Tried, Lowest

LEMMA SearchStarts == SearchInit => SearchInv
<1> SUFFICES ASSUME SearchInit PROVE SearchInv
  OBVIOUS
<1>1. next = asked.ledger /\ answer = {} /\ fromHint = (asked.hint < asked.arena.end)
  BY DEF SearchInit
<1>2. InputTyped
  <2>1. /\ asked.ledger \in Ledgers /\ asked.arena \in Arenas /\ asked.size \in Sizes
        /\ asked.align \in Aligns /\ asked.hint \in SearchHints
    BY DEF SearchInit
  <2>2. /\ asked.ledger \subseteq Regions /\ asked.arena.start \in Nat
        /\ asked.arena.end \in Nat /\ asked.hint \in Nat
        /\ asked.size \in Nat \ {0} /\ asked.align \in Nat \ {0}
    <3>1. asked.ledger \subseteq Regions /\ asked.arena.start \in Addr /\ asked.arena.end \in Addr
      BY <2>1, GapSearchAssumption DEF InputsOK
    <3>2. asked.size \in Nat \ {0} /\ asked.align \in Nat \ {0} /\ asked.hint \in Nat
      BY <2>1, GapSearchAssumption DEF InputsOK
    <3> QED BY <3>1, <3>2, PageAssumption DEF Addr
  <2>3. fromHint \in BOOLEAN
    BY <1>1
  <2> QED BY <1>1, <2>2, <2>3 DEF InputTyped
<1>0. cursor = AlignUp(Max({From, asked.arena.start}), asked.align)
  <2>1. cursor = StartCursor(IF asked.hint < asked.arena.end THEN asked.hint ELSE asked.arena.start)
    BY DEF SearchInit
  <2>2. cursor = StartCursor(From)
    BY <1>1, <2>1 DEF From
  <2> QED BY <2>2 DEF StartCursor
<1>3. From \in Nat /\ asked.hint \in Nat /\ asked.arena.end \in Nat
  BY <1>2 DEF InputTyped, From
<1>4. Walked
  BY <1>1, <1>2, <1>3, <1>0, StartWalks DEF Walked
<1>5. Tried
  <2>1. CASE fromHint
    BY <1>1, <2>1 DEF Tried
  <2>2. CASE ~fromHint
    <3>1. ~(asked.hint < asked.arena.end)
      BY <1>1, <2>2
    <3> QED BY <1>3, <2>2, <3>1 DEF Tried
  <2> QED BY <2>1, <2>2
<1>6. ComputesFirstFit
  BY <1>1 DEF ComputesFirstFit, Searching
<1> QED BY <1>2, <1>4, <1>5, <1>6 DEF SearchInv

(* The input is constant, and with it the holes.                           *)
SameInput == UNCHANGED asked

LEMMA HolesStay == ASSUME SameInput PROVE \A from : Holes(from)' = Holes(from)
BY DEF SameInput, Holes

(* An answer given is the answer for good.                                 *)
LEMMA AnswerIs ==
  ASSUME SearchInv, SameInput, next' = next, fromHint' = fromHint, answer' # {},
         answer' = IF Expected = {} THEN {NoGap} ELSE Expected
  PROVE  SearchInv'
<1>1. InputTyped'
  BY DEF SearchInv, InputTyped, SameInput
<1>2. Expected' = Expected
  BY DEF Expected, SameInput
<1>4. ComputesFirstFit'
  BY <1>2 DEF ComputesFirstFit, NoGap
<1> QED BY <1>1, <1>4 DEF SearchInv

(* The search goes on with the cursor at c and the regions of N to visit.  *)
LEMMA GoesOn ==
  ASSUME SearchInv, answer = {}, SameInput, fromHint' = fromHint, answer' = answer,
         next' \subseteq next, cursor' \in Nat, Aligned(cursor', asked.align), cursor <= cursor',
         \A a \in Holes(From) : cursor' <= a,
         \A r \in next \ next' : End(r) <= cursor' \/ asked.arena.end <= cursor'
  PROVE  SearchInv'
<1>1. InputTyped /\ Walked /\ Tried
  BY DEF SearchInv
<1>2. From' = From /\ \A from : Holes(from)' = Holes(from)
  BY HolesStay DEF From, SameInput
<1>3. InputTyped'
  BY <1>1 DEF InputTyped, SameInput
<1>4. Tried'
  BY <1>1, <1>2 DEF Tried, SameInput
<1>5. /\ From \in Nat /\ asked.arena.start \in Nat /\ asked.arena.end \in Nat /\ cursor \in Nat
      /\ \A r \in asked.ledger : End(r) \in Int
  BY <1>1, PageAssumption DEF InputTyped, From, Walked, Regions, Addr, End
<1>6. asked'.ledger = asked.ledger /\ asked'.arena = asked.arena /\ asked'.align = asked.align
  BY DEF SameInput
<1>7. ASSUME NEW r \in asked.ledger \ next' PROVE End(r) <= cursor' \/ asked.arena.end <= cursor'
  <2>1. CASE r \in next
    BY <1>7, <2>1
  <2>2. CASE r \notin next
    BY <1>1, <1>5, <1>7, <2>2 DEF Walked
  <2> QED BY <2>1, <2>2
<1>8. From <= cursor' /\ asked.arena.start <= cursor'
  BY <1>1, <1>5 DEF Walked
<1>9. (\A a \in Holes(From) : cursor <= a)'
  BY <1>2
<1>10. Walked'
  BY <1>2, <1>6, <1>7, <1>8 DEF Walked
<1>11. ComputesFirstFit'
  BY DEF ComputesFirstFit, Searching
<1> QED BY <1>3, <1>4, <1>10, <1>11 DEF SearchInv

(* One turn of the loop.                                                   *)
LEMMA SearchSteps == SearchInv /\ [SearchNext]_searchVars => SearchInv'
<1> SUFFICES ASSUME SearchInv, [SearchNext]_searchVars PROVE SearchInv'
  OBVIOUS
<1> DEFINE r == LowestRegion(next)
<1>1. /\ asked.arena.start \in Nat /\ asked.arena.end \in Nat /\ asked.hint \in Nat /\ From \in Nat
      /\ asked.size \in Nat \ {0} /\ asked.align \in Nat \ {0} /\ InputTyped
  BY DEF SearchInv, InputTyped, From
<1>2. next # {} => /\ r \in next /\ r \in asked.ledger /\ \A s \in next : r.addr <= s.addr
                   /\ r.addr \in Nat /\ End(r) \in Nat
  <2>1. next \subseteq Regions
    BY <1>1 DEF InputTyped
  <2>2. next # {} => r \in next /\ \A s \in next : r.addr <= s.addr
    BY <2>1, FirstIs
  <2> HIDE DEF r
  <2> QED BY <1>1, <2>1, <2>2, PageAssumption DEF InputTyped, Regions, Addr, End
<1>3. answer = {} => /\ Walked /\ Tried /\ cursor \in Nat
                     /\ \A a \in Holes(From) : a \in Nat /\ cursor <= a
  <2>1. answer = {} => Walked /\ Tried
    BY DEF SearchInv
  <2>2. Holes(From) \in SUBSET Nat
    BY <1>1, HolesAreNat
  <2> QED BY <2>1, <2>2 DEF Walked
<1>4. CASE UNCHANGED searchVars
  <2>1. SameInput /\ UNCHANGED <<fromHint, cursor, next, answer>>
    BY <1>4 DEF searchVars, SameInput
  <2>2. \A from : Holes(from)' = Holes(from)
    BY <2>1, HolesStay
  <2>3. From' = From /\ InputTyped'
    BY <1>1, <2>1 DEF From, SameInput, InputTyped
  <2>4. (Walked /\ Tried)' = (Walked /\ Tried)
    BY <2>1, <2>2, <2>3 DEF Walked, Tried, SameInput
  <2>5. ComputesFirstFit' = ComputesFirstFit
    BY <2>1 DEF ComputesFirstFit, Searching, Expected, SameInput
  <2> QED BY <2>1, <2>3, <2>4, <2>5 DEF SearchInv
<1>5. CASE SkipBelow
  <2>1. /\ answer = {} /\ next # {} /\ End(r) <= asked.arena.start /\ next' = next \ {r}
        /\ SameInput /\ fromHint' = fromHint /\ cursor' = cursor /\ answer' = answer
    BY <1>5 DEF SkipBelow, Searching, AtEnd, SameInput
  <2> HIDE DEF r
  <2>2. End(r) <= cursor
    BY <1>1, <1>2, <1>3, <2>1 DEF Walked
  <2> QED BY <1>3, <2>1, <2>2, GoesOn DEF Walked
<1>6. CASE TakeGap
  <2>1. /\ answer = {} /\ next # {} /\ cursor < r.addr
        /\ Room(IF r.addr < asked.arena.end THEN r.addr ELSE asked.arena.end)
        /\ answer' = {cursor} /\ SameInput /\ fromHint' = fromHint /\ next' = next
    BY <1>6 DEF TakeGap, Searching, AtEnd, GapBefore, Found, SameInput
  <2> HIDE DEF r
  <2>2. cursor + asked.size <= r.addr /\ cursor + asked.size <= asked.arena.end
    BY <1>1, <1>2, <1>3, <2>1 DEF Room
  <2>3. \A s \in next : cursor + asked.size <= s.addr
    <3>1. ASSUME NEW s \in next PROVE cursor + asked.size <= s.addr
      <4>1. s.addr \in Nat /\ r.addr <= s.addr /\ r.addr \in Nat
        BY <1>1, <1>2, <2>1, PageAssumption DEF InputTyped, Regions, Addr
      <4> QED BY <1>1, <1>3, <2>1, <2>2, <4>1
    <3> QED BY <3>1
  <2>4. cursor \in Holes(From)
    BY <1>1, <1>3, <2>1, <2>2, <2>3, RoomIsHole
  <2>5. Expected = {cursor}
    BY <1>1, <1>3, <2>1, <2>4, FoundFits
  <2> QED BY <2>1, <2>5, AnswerIs
<1>7. CASE Advance
  <2>1. /\ answer = {} /\ next # {} /\ r.addr < asked.arena.end /\ End(r) > asked.arena.start
        /\ ~GapBefore(r) /\ cursor' = Past(r)
        /\ next' = IF cursor' >= asked.arena.end THEN {} ELSE next \ {r}
        /\ SameInput /\ fromHint' = fromHint /\ answer' = answer
    <3>1. ~(r.addr >= asked.arena.end)
      BY <1>7 DEF Advance, AtEnd
    <3> QED BY <1>1, <1>2, <1>7, <3>1
            DEF Advance, Searching, AtEnd, SameInput
  <2> HIDE DEF r
  <2>2. cursor' = IF cursor < End(r) THEN AlignUp(End(r), asked.align) ELSE cursor
    BY <1>2, <2>1 DEF Past
  <2>3. /\ AlignUp(End(r), asked.align) \in Nat
        /\ Aligned(AlignUp(End(r), asked.align), asked.align)
        /\ End(r) <= AlignUp(End(r), asked.align)
    <3>1. End(r) \in Nat
      BY <1>2, <2>1
    <3>2. /\ AlignUp(End(r), asked.align) \in Int
          /\ Aligned(AlignUp(End(r), asked.align), asked.align)
          /\ End(r) <= AlignUp(End(r), asked.align)
      <4>1. ASSUME NEW b \in Nat, NEW k \in Nat \ {0}
            PROVE  AlignUp(b, k) \in Int /\ Aligned(AlignUp(b, k), k) /\ b <= AlignUp(b, k)
        BY Rounding, RoundAligned
      <4> QED BY <1>1, <3>1, <4>1
    <3> QED BY <3>1, <3>2
  <2>4. cursor' \in Nat /\ Aligned(cursor', asked.align) /\ cursor <= cursor' /\ End(r) <= cursor'
    BY <1>2, <1>3, <2>1, <2>2, <2>3 DEF Walked
  <2>5. ASSUME NEW a \in Holes(From) PROVE cursor' <= a
    <3>1. a \in Nat /\ cursor <= a
      BY <1>3, <2>1
    <3>2. CASE cursor >= End(r)
      BY <1>2, <1>3, <2>1, <2>2, <3>1, <3>2
    <3>3. CASE cursor < End(r) /\ End(r) <= a
      <4>1. Aligned(a, asked.align)
        BY <1>1, FitsMeaning DEF Holes
      <4>2. AlignUp(End(r), asked.align) <= a
        BY <1>1, <1>2, <2>1, <3>1, <3>3, <4>1, UpLeast
      <4> QED BY <2>2, <3>3, <4>2
    <3>4. CASE a < End(r)
      <4>1. a + asked.size <= asked.arena.end /\ Vacant(asked.ledger, a, asked.size)
        BY <1>1, FitsMeaning DEF Holes
      <4>2. ~Overlaps(r, a, asked.size)
        BY <1>2, <2>1, <4>1 DEF Vacant
      <4>3. a + asked.size <= r.addr
        BY <1>1, <1>2, <2>1, <3>1, <3>4, <4>2 DEF Overlaps
      <4>4. cursor < r.addr /\ r.addr >= cursor /\ r.addr - cursor >= asked.size
        BY <1>1, <1>2, <1>3, <2>1, <3>1, <4>3
      <4>5. asked.arena.end >= cursor /\ asked.arena.end - cursor >= asked.size
        BY <1>1, <1>3, <2>1, <3>1, <4>1
      <4>6. GapBefore(r)
        BY <4>4, <4>5 DEF GapBefore, Room
      <4> QED BY <2>1, <4>6
    <3> QED BY <1>2, <1>3, <2>1, <3>1, <3>2, <3>3, <3>4
  <2>6. /\ next' \subseteq next
        /\ \A s \in next \ next' : End(s) <= cursor' \/ asked.arena.end <= cursor'
    <3>1. CASE cursor' >= asked.arena.end
      BY <1>1, <2>1, <2>4, <3>1
    <3>2. CASE ~(cursor' >= asked.arena.end)
      BY <2>1, <2>4, <3>2
    <3> QED BY <3>1, <3>2
  <2> QED BY <2>1, <2>4, <2>5, <2>6, GoesOn
<1>8. CASE Finish
  <2>1. /\ answer = {} /\ AtEnd /\ SameInput
        /\ IF Room(asked.arena.end) THEN Found(cursor) ELSE NotFound
    BY <1>8 DEF Finish, Searching, SameInput
  <2>2. next # {} => r.addr >= asked.arena.end
    BY <2>1 DEF AtEnd
  <2> HIDE DEF r
  <2>3. ASSUME NEW s \in next PROVE s.addr \in Nat /\ asked.arena.end <= s.addr
    <3>1. s.addr \in Nat /\ r.addr <= s.addr /\ r.addr \in Nat /\ r.addr >= asked.arena.end
      BY <1>1, <1>2, <2>2, PageAssumption DEF InputTyped, Regions, Addr
    <3> QED BY <1>1, <3>1
  <2>4. CASE Room(asked.arena.end)
    <3>1. answer' = {cursor} /\ fromHint' = fromHint /\ next' = next
      BY <2>1, <2>4 DEF Found
    <3>2. cursor + asked.size <= asked.arena.end
      BY <1>1, <1>3, <2>1, <2>4 DEF Room
    <3>3. \A s \in next : cursor + asked.size <= s.addr
      BY <1>1, <1>3, <2>1, <2>3, <3>2
    <3>4. cursor \in Holes(From)
      BY <1>1, <1>3, <2>1, <3>2, <3>3, RoomIsHole
    <3>5. Expected = {cursor}
      BY <1>1, <1>3, <2>1, <3>4, FoundFits
    <3> QED BY <2>1, <3>1, <3>5, AnswerIs
  <2>5. CASE ~Room(asked.arena.end)
    <3>1. Holes(From) = {}
      <4>1. ASSUME NEW a \in Holes(From) PROVE FALSE
        <5>1. a \in Nat /\ cursor <= a
          BY <1>3, <2>1
        <5>2. a + asked.size <= asked.arena.end
          BY <1>1, FitsMeaning DEF Holes
        <5>3. asked.arena.end >= cursor /\ asked.arena.end - cursor >= asked.size
          BY <1>1, <1>3, <2>1, <5>1, <5>2
        <5> QED BY <2>5, <5>3 DEF Room
      <4> QED BY <4>1
    <3>2. NotFound
      BY <2>1, <2>5
    <3>3. CASE fromHint
      <4>1. /\ fromHint' = FALSE /\ next' = asked.ledger /\ answer' = answer
            /\ cursor' = StartCursor(asked.arena.start)
        BY <3>2, <3>3 DEF NotFound
      <4>2. \A from : Holes(from)' = Holes(from)
        BY <2>1, HolesStay
      <4>3. From' = asked.arena.start /\ InputTyped'
        BY <1>1, <2>1, <4>1 DEF From, SameInput, InputTyped
      <4>4. cursor' = AlignUp(Max({asked.arena.start, asked.arena.start}), asked.align)
        BY <4>1 DEF StartCursor
      <4>5. /\ cursor' \in Nat /\ Aligned(cursor', asked.align) /\ asked.arena.start <= cursor'
            /\ \A a \in Holes(asked.arena.start) : cursor' <= a
        BY <1>1, <4>4, StartWalks
      <4>6. Walked'
        <5>1. asked'.arena = asked.arena /\ asked'.align = asked.align /\ asked'.ledger \ next' = {}
          BY <2>1, <4>1 DEF SameInput
        <5>2. Holes(From)' = Holes(asked.arena.start)
          <6>1. Holes(From)' = Fits(asked'.ledger, asked'.size, asked'.align, asked'.arena, From')
            BY DEF Holes
          <6> QED BY <2>1, <4>3, <6>1 DEF Holes, SameInput
        <5> QED BY <4>3, <4>5, <5>1, <5>2 DEF Walked
      <4>7. Tried'
        <5>1. Holes(asked.hint) = {}
          BY <3>1, <3>3 DEF From
        <5>2. Holes(asked.hint)' = Holes(asked.hint)
          BY <2>1 DEF Holes, SameInput
        <5> QED BY <4>1, <5>1, <5>2, <2>1 DEF Tried, SameInput
      <4>8. ComputesFirstFit'
        BY <2>1, <4>1 DEF ComputesFirstFit, Searching
      <4> QED BY <4>3, <4>6, <4>7, <4>8 DEF SearchInv
    <3>4. CASE ~fromHint
      <4>1. answer' = {NoGap} /\ fromHint' = fromHint /\ next' = next
        BY <3>2, <3>4 DEF NotFound
      <4>2. Holes(asked.arena.start) = {}
        BY <3>1, <3>4 DEF From
      <4>3. Expected = {}
        BY <1>1, <1>3, <2>1, <3>4, <4>2, NoneFits
      <4> QED BY <2>1, <4>1, <4>3, AnswerIs
    <3> QED BY <3>3, <3>4
  <2> QED BY <2>4, <2>5
<1> QED BY <1>4, <1>5, <1>6, <1>7, <1>8 DEF SearchNext

(***************************************************************************)
(* For every ledger, arena, alignment, size and hint: what find_gap's loop *)
(* answers is FirstFit, and NoAvailableGap exactly when there is no hole.  *)
(***************************************************************************)
THEOREM SearchIsFirstFit == SearchSpec => []ComputesFirstFit
<1>1. SearchInit => SearchInv
  BY SearchStarts
<1>2. SearchInv => ComputesFirstFit
  BY DEF SearchInv
<1> QED BY <1>1, <1>2, SearchSteps, PTL DEF SearchSpec
=============================================================================
