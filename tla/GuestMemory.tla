---------------------------- MODULE GuestMemory ----------------------------
(***************************************************************************)
(* The guest address space as the runtime uses it: the VMA ledger of       *)
(* AddressSpace, the backend's page table it must agree with, the older    *)
(* RegionTracker, and every caller: the ELF loader, RELRO, init_jni,       *)
(* call_export and the guest's own mmap, munmap and mprotect.              *)
(*                                                                         *)
(* Two hosts assemble the same parts (case-runner/src/runtime.rs and       *)
(* bindings/python/src/lib.rs).  They differ in one thing: case-runner's   *)
(* materializer also registers what it maps in a RegionTracker.  Tracked   *)
(* says which host is modelled.                                            *)
(***************************************************************************)
EXTENDS AddressSpace, Sequences

CONSTANTS
  Tracked,    (* TRUE: EngineMemoryMaterializer; FALSE: PyEngineMaterializer *)
  Faults,     (* backend operations that may fail for no modelled reason    *)
  ElfArena,   (* [start, end] searched for ELF images                       *)
  MmapArena,  (* [start, end] searched for mmap without a hint              *)
  Scratch, Jni, Stack, Sentinel, (* the fixed [addr, size] ranges           *)
  Images,     (* ELF images: [segs, align, relro]                           *)
  GuestAddrs, (* addresses the guest passes to munmap and mprotect          *)
  Hints,      (* addresses passed to mmap, 0 for none                       *)
  Backings,   (* what mmap's file descriptors are open on                   *)
  Lengths,    (* lengths the guest passes to the three calls                *)
  Prots       (* protections the guest asks for                             *)

VARIABLES
  mem,        (* [ledger, backend, tracker], see TypeOK                     *)
  host,       (* what the one host thread is doing                          *)
  load,       (* the image being loaded and its segments left to protect    *)
  images,     (* loaded modules                                             *)
  trampolineMapped, (* GuestRuntime::trampoline_mapped                      *)
  result      (* how the last operation ended                               *)

vars == <<mem, host, load, images, trampolineMapped, result>>

ArenaOK(arena) ==
  /\ arena.start \in Addr /\ arena.end \in Addr /\ arena.start < arena.end
  /\ Aligned(arena.start, PageSize) /\ Aligned(arena.end, PageSize)

SiteOK(site) ==
  /\ site.addr \in Addr /\ site.size \in Addr \ {0}
  /\ Aligned(site.addr, PageSize) /\ Aligned(site.size, PageSize)
  /\ site.addr + site.size \in Addr

Segments == [vaddr : Addr, memsz : Addr \ {0}, perms : Perms]

ImageOK(img) ==
  /\ img.segs \in Seq(Segments) \ {<<>>}
  /\ img.align \in Nat \ {0} /\ img.relro \in BOOLEAN

ASSUME GuestMemoryAssumption ==
  /\ Tracked \in BOOLEAN
  /\ Faults \subseteq {"map", "protect", "unmap", "write"}
  /\ ArenaOK(ElfArena) /\ ArenaOK(MmapArena)
  /\ SiteOK(Scratch) /\ SiteOK(Jni) /\ SiteOK(Stack) /\ SiteOK(Sentinel)
  /\ \A img \in Images : ImageOK(img)
  /\ Backings \subseteq {"FileMmap", "DeviceMmap"}
  /\ GuestAddrs \subseteq Addr /\ Hints \subseteq Addr /\ Lengths \subseteq Addr
  /\ Prots \subseteq Perms

-----------------------------------------------------------------------------
(***************************************************************************)
(* The backend: a partial function from page to protection.  Unicorn maps  *)
(* only free pages and protects or unmaps only mapped ones.                *)
(***************************************************************************)
Pages == {p \in Addr : Aligned(p, PageSize)}

PagesOf(addr, size) == {p \in Pages : p < addr + size /\ addr < p + PageSize}

(* Mapping that skips pages already there, unmapping that does nothing     *)
(* (mutants).                                                              *)
MapNewPages(backend, pages, perms) ==
  [p \in DOMAIN backend \cup pages |->
     IF p \in DOMAIN backend THEN backend[p] ELSE perms]

MapPages(backend, pages, perms) ==
  [p \in DOMAIN backend \cup pages |->
     IF p \in pages THEN perms ELSE backend[p]]

UnmapPages(backend, pages) == [p \in DOMAIN backend \ pages |-> backend[p]]

Failed(m) == [ok |-> FALSE, mem |-> m]

Done(m) == [ok |-> TRUE, mem |-> m]

(* Which backend operations fail during one call.                          *)
FaultPlans == SUBSET Faults

(***************************************************************************)
(* MemoryAddressSpace::allocate through a materializer.  `tracks` is TRUE  *)
(* for case-runner's host-side materializer, which maps the pages first    *)
(* and can then still fail: RegionTracker refuses a range it has seen.     *)
(***************************************************************************)
Allocate(m, req, tracks, fails) ==
  LET plan == Plan(m.ledger, req)
      r == CHOOSE x \in plan : TRUE
      pages == PagesOf(r.addr, r.size)
      range == [addr |-> r.addr, size |-> r.size]
      refused == "map" \in fails \/ pages \cap DOMAIN m.backend # {}
      backend == MapPages(m.backend, pages, r.perms)
  IN  IF plan = {} \/ refused
        THEN Failed(m)
        ELSE IF tracks /\ ~Vacant(m.tracker, r.addr, r.size)
          THEN Failed([ledger |-> m.ledger, backend |-> backend,
                       tracker |-> m.tracker])
          ELSE Done([ledger |-> m.ledger \cup {r}, backend |-> backend,
                     tracker |-> IF tracks THEN m.tracker \cup {range}
                                           ELSE m.tracker])

(***************************************************************************)
(* MemoryAddressSpace::protect.  The backend protects whole pages, the     *)
(* ledger records the range as given.  (addr + size is computed unchecked  *)
(* before the checked addition: a debug build panics where this, the       *)
(* release build, returns Overflow.)                                       *)
(***************************************************************************)
Protect(m, addr, size, perms, fails) ==
  LET pages == PagesOf(addr, size)
  IN  IF \/ size = 0
         \/ ~FullyMapped(m.ledger, addr, size)
         \/ "protect" \in fails
         \/ ~(pages \subseteq DOMAIN m.backend)
        THEN Failed(m)
        ELSE Done([ledger |-> Rewrite(m.ledger, addr, size, perms),
                   backend |-> MapPages(m.backend, pages, perms),
                   tracker |-> m.tracker])

(* MemoryAddressSpace::unmap                                               *)
Unmap(m, addr, size, fails) ==
  LET pages == PagesOf(addr, size)
  IN  IF \/ size = 0
         \/ ~Aligned(addr, PageSize) \/ ~Aligned(size, PageSize)
         \/ ~FullyMapped(m.ledger, addr, size)
         \/ "unmap" \in fails
         \/ ~(pages \subseteq DOMAIN m.backend)
        THEN Failed(m)
        ELSE Done([ledger |-> Carve(m.ledger, addr, size),
                   backend |-> UnmapPages(m.backend, pages),
                   tracker |-> m.tracker])

Report(r) == mem' = r.mem /\ result' = IF r.ok THEN "ok" ELSE "err"
-----------------------------------------------------------------------------
(* assemble: the scratch buffer is the first region.                       *)
ScratchRegion ==
  [addr |-> Scratch.addr, size |-> Scratch.size, perms |-> {"r", "w"},
   mode |-> "Reserved", usage |-> "Scratch"]

NoLoad == [base |-> 0, left |-> <<>>, img |-> <<>>]

Init ==
  /\ mem = [ledger |-> {ScratchRegion},
            backend |-> [p \in PagesOf(Scratch.addr, Scratch.size) |-> {"r", "w"}],
            tracker |-> IF Tracked
                          THEN {[addr |-> Scratch.addr, size |-> Scratch.size]}
                          ELSE {}]
  /\ host = "idle"
  /\ load = NoLoad
  /\ images = {}
  /\ trampolineMapped = FALSE
  /\ result = "ok"

(* init_jni: the JNIEnv and JavaVM tables.  A second call overlaps.        *)
InitJni ==
  /\ host = "idle"
  /\ \E fails \in FaultPlans :
       Report(Allocate(mem, Reserved(Jni.addr, Jni.size, {"r", "x"}, "JNIEnv"),
                       Tracked, fails))
  /\ UNCHANGED <<host, load, images, trampolineMapped>>

(***************************************************************************)
(* DefaultLoader::load: reserve the whole footprint, write the segments,   *)
(* then protect them one by one.  Nothing else runs in between; each step  *)
(* may fail, and a failure leaves what the earlier steps did.              *)
(***************************************************************************)
SegmentEnds(img) == {img.segs[i].vaddr + img.segs[i].memsz : i \in DOMAIN img.segs}

ImageAlign(img) == Max({img.align, PageSize})

FootprintRequest(img, last) ==
  Dynamic(ElfArena, ElfArena.start, AlignUp(last, PageSize), ImageAlign(img),
          {"r", "w", "x"}, "ELFImage")

ReserveImage(img) ==
  /\ host = "idle"
  /\ \E last \in SegmentEnds(img), fails \in FaultPlans :
       LET r == Allocate(mem, FootprintRequest(img, last), Tracked, fails)
           new == CHOOSE x \in r.mem.ledger \ mem.ledger : TRUE
           written == r.ok /\ "write" \notin fails
       IN  /\ \A end \in SegmentEnds(img) : end <= last
           /\ mem' = r.mem
           /\ result' = IF written THEN "ok" ELSE "err"
           /\ IF written
                THEN /\ host' = "loading"
                     /\ load' = [base |-> new.addr, left |-> img.segs, img |-> img]
                ELSE UNCHANGED <<host, load>>
  /\ UNCHANGED <<images, trampolineMapped>>

(* protect_segment: rounded out to whole pages.                            *)
ProtectSegment ==
  /\ host = "loading" /\ load.left # <<>>
  /\ LET seg == Head(load.left)
         start == AlignDown(load.base + seg.vaddr, PageSize)
         end == AlignUp(load.base + seg.vaddr + seg.memsz, PageSize)
     IN \E fails \in FaultPlans :
          LET r == Protect(mem, start, end - start, seg.perms, fails)
          IN  /\ Report(r)
              /\ IF r.ok
                   THEN /\ load' = [base |-> load.base, left |-> Tail(load.left),
                                    img |-> load.img]
                        /\ UNCHANGED host
                   ELSE load' = NoLoad /\ host' = "idle"
  /\ UNCHANGED <<images, trampolineMapped>>

FinishLoad ==
  /\ host = "loading" /\ load.left = <<>>
  /\ images' = images \cup {[base |-> load.base, img |-> load.img]}
  /\ load' = NoLoad /\ host' = "idle" /\ result' = "ok"
  /\ UNCHANGED <<mem, trampolineMapped>>

(***************************************************************************)
(* protect_relro: the image's first RW segment, rounded out to pages,      *)
(* turns read-only after its relocations are written.                      *)
(***************************************************************************)
RelroSegments(img) ==
  {i \in DOMAIN img.segs : img.segs[i].perms = {"r", "w"}}

ProtectRelro(m) ==
  /\ host = "idle" /\ m.img.relro
  /\ \E i \in RelroSegments(m.img), fails \in FaultPlans :
       LET seg == m.img.segs[i]
           start == AlignDown(m.base + seg.vaddr, PageSize)
           end == AlignUp(m.base + seg.vaddr + seg.memsz, PageSize)
       IN  /\ \A j \in RelroSegments(m.img) : i <= j
           /\ Report(Protect(mem, start, end - start, {"r"}, fails))
  /\ UNCHANGED <<host, load, images, trampolineMapped>>

(***************************************************************************)
(* call_export: the first call maps the sentinel page and then the stack;  *)
(* trampoline_mapped is set only after both.                               *)
(***************************************************************************)
CallMapsSentinel ==
  /\ host = "idle" /\ ~trampolineMapped
  /\ \E fails \in FaultPlans :
       LET r == Allocate(mem, Reserved(Sentinel.addr, Sentinel.size, {"r", "x"},
                                       "Trampoline"), Tracked, fails)
       IN  /\ Report(r)
           /\ host' = IF r.ok THEN "calling" ELSE host
  /\ UNCHANGED <<load, images, trampolineMapped>>

CallMapsStack ==
  /\ host = "calling"
  /\ \E fails \in FaultPlans :
       LET r == Allocate(mem, Reserved(Stack.addr, Stack.size, {"r", "w"}, "Stack"),
                         Tracked, fails)
           ready == r.ok /\ "write" \notin fails
       IN  /\ mem' = r.mem
           /\ result' = IF ready THEN "ok" ELSE "err"
           /\ trampolineMapped' = ready
           /\ host' = IF ready THEN "guest" ELSE "idle"
  /\ UNCHANGED <<load, images>>

CallAgain ==
  /\ host = "idle" /\ trampolineMapped
  /\ host' = "guest" /\ result' = "ok"
  /\ UNCHANGED <<mem, load, images, trampolineMapped>>

(* The guest returns to the sentinel, exits or faults: emu_start ends.     *)
CallReturns ==
  /\ host = "guest"
  /\ host' = "idle" /\ result' = "ok"
  /\ UNCHANGED <<mem, load, images, trampolineMapped>>
-----------------------------------------------------------------------------
(***************************************************************************)
(* The guest's system calls, made while emu_start runs.  Their bridge maps *)
(* straight into the backend and never tells RegionTracker.                *)
(***************************************************************************)
(* align_len: a zero length means one page; the sum wraps at 2^64.         *)
AlignLen(len) ==
  IF len = 0 THEN PageSize
             ELSE AlignDown((len + PageSize - 1) % (MaxAddr + 1), PageSize)

MmapRequest(hint, len, perms, usage) ==
  IF hint # 0
    THEN Reserved(AlignDown(hint, PageSize), AlignLen(len), perms, usage)
    ELSE Dynamic(MmapArena, MmapArena.start, AlignLen(len), PageSize, perms, usage)

MmapAnonymous(hint, len, perms) ==
  /\ host = "guest"
  /\ \E fails \in FaultPlans :
       Report(Allocate(mem, MmapRequest(hint, len, perms, "AnonymousMmap"),
                       FALSE, fails))
  /\ UNCHANGED <<host, load, images, trampolineMapped>>

(* materialize_mmap_request that reports EFAULT without unmapping.         *)
MmapFdLeaks(usage, hint, len, perms) ==
  /\ host = "guest" /\ (usage = "FileMmap" => hint = 0)
  /\ \E fails \in FaultPlans :
       LET r == Allocate(mem, MmapRequest(hint, len, perms, usage), FALSE, fails)
       IN  /\ mem' = r.mem
           /\ result' = IF r.ok /\ "write" \notin fails THEN "ok" ELSE "err"
  /\ UNCHANGED <<host, load, images, trampolineMapped>>

(* A mapping of a file has no hint, one of a device the hint its driver    *)
(* answers.  The content, if there is any, is written after the map; if    *)
(* that fails the region is unmapped and the result of it ignored.         *)
MmapFd(usage, hint, len, perms) ==
  /\ host = "guest" /\ (usage = "FileMmap" => hint = 0)
  /\ \E fails \in FaultPlans :
       LET r == Allocate(mem, MmapRequest(hint, len, perms, usage), FALSE, fails)
           new == CHOOSE x \in r.mem.ledger \ mem.ledger : TRUE
       IN  IF r.ok /\ "write" \in fails
             THEN /\ mem' = Unmap(r.mem, new.addr, new.size, fails).mem
                  /\ result' = "err"
             ELSE Report(r)
  /\ UNCHANGED <<host, load, images, trampolineMapped>>

Munmap(addr, len) ==
  /\ host = "guest"
  /\ \E fails \in FaultPlans : Report(Unmap(mem, addr, AlignLen(len), fails))
  /\ UNCHANGED <<host, load, images, trampolineMapped>>

Mprotect(addr, len, perms) ==
  /\ host = "guest"
  /\ \E fails \in FaultPlans :
       Report(Protect(mem, addr, AlignLen(len), perms, fails))
  /\ UNCHANGED <<host, load, images, trampolineMapped>>

Next ==
  \/ InitJni
  \/ \E img \in Images : ReserveImage(img)
  \/ ProtectSegment
  \/ FinishLoad
  \/ \E m \in images : ProtectRelro(m)
  \/ CallMapsSentinel
  \/ CallMapsStack
  \/ CallAgain
  \/ CallReturns
  \/ \E hint \in Hints, len \in Lengths, perms \in Prots :
       MmapAnonymous(hint, len, perms)
  \/ \E usage \in Backings, hint \in Hints, len \in Lengths, perms \in Prots :
       MmapFd(usage, hint, len, perms)
  \/ \E addr \in GuestAddrs, len \in Lengths : Munmap(addr, len)
  \/ \E addr \in GuestAddrs, len \in Lengths, perms \in Prots :
       Mprotect(addr, len, perms)

Spec == Init /\ [][Next]_vars
-----------------------------------------------------------------------------
(* Types.  Every region the ledger holds is non-empty and ends inside the  *)
(* address space, the backend's pages are pages, and whatever is loaded is *)
(* one of Images.                                                          *)
TypeOK ==
  /\ mem.ledger \subseteq Regions
  /\ \A r \in mem.ledger : End(r) \in Addr
  /\ DOMAIN mem.backend \subseteq Pages
  /\ \A p \in DOMAIN mem.backend : mem.backend[p] \in Perms
  /\ mem.tracker \subseteq [addr : Addr, size : Addr \ {0}]
  /\ host \in {"idle", "loading", "calling", "guest"}
  /\ host = "loading" => /\ load.base \in Addr /\ load.img \in Images
                         /\ load.left \in Seq(Segments)
  /\ images \subseteq [base : Addr, img : Images]
  /\ trampolineMapped \in BOOLEAN
  /\ result \in {"ok", "err"}

(* No two regions of the ledger share an address, however often guest      *)
(* calls split and rewrite them.  The binary search of `find`, the order   *)
(* of the vector and the gap search all rest on it.                        *)
NoOverlap == Disjoint(mem.ledger)

LedgerPages == UNION {PagesOf(r.addr, r.size) : r \in mem.ledger}

(* The ledger promises no memory the backend lacks: a failing backend      *)
(* operation leaves no entry behind (eager materialization).               *)
LedgerBacked == LedgerPages \subseteq DOMAIN mem.backend

(* What every decision taken from the ledger rests on: regions are whole,  *)
(* apart from each other and backed, through every split and every failure *)
(* of a backend operation half way.                                        *)
LedgerSound == TypeOK /\ NoOverlap /\ LedgerBacked

(* Pages the backend holds and the ledger does not know.                   *)
Leaked == DOMAIN mem.backend \ LedgerPages

(* The converse: what the ledger calls free the backend can map, so a gap  *)
(* released by munmap is usable by the next allocation.                    *)
FreeIsMappable == Leaked = {}

(* Ledger and backend agree on the protection of every address.            *)
PermsAgree ==
  \A r \in mem.ledger : \A p \in PagesOf(r.addr, r.size) \cap DOMAIN mem.backend :
    mem.backend[p] = r.perms

(* The two records of guest memory, the ledger that allocate, protect and  *)
(* unmap decide by and the page table of the backend, hold the same pages  *)
(* with the same permissions, after any sequence of loads, calls and       *)
(* syscalls.                                                               *)
BackendAgrees == LedgerBacked /\ FreeIsMappable /\ PermsAgree

(* A region found by gap search stays inside the arena it was searched in, *)
(* also after munmap and mprotect have cut it.                             *)
DynamicInArena ==
  \A r \in mem.ledger : r.mode = "Dynamic" =>
    LET arena == IF r.usage = "ELFImage" THEN ElfArena ELSE MmapArena
    IN  arena.start <= r.addr /\ End(r) <= arena.end

(* A guest call that reports failure has changed neither ledger nor        *)
(* backend (checked with faults in map, protect and the content write).    *)
FailedSyscallIsClean ==
  [][host = "guest" /\ result' = "err" => mem' = mem]_vars

(* Splitting keeps identity: an address that stays mapped across a step    *)
(* keeps its usage and mode, whatever range the call named.                *)
SplitKeepsIdentity ==
  [][\A r \in mem.ledger, s \in mem'.ledger :
       Overlaps(r, s.addr, s.size) => r.usage = s.usage /\ r.mode = s.mode]_vars

=============================================================================
