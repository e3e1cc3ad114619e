----------------------------- MODULE GapSearch -----------------------------
(***************************************************************************)
(* find_gap and find_gap_from of address_space.rs as they run: a cursor    *)
(* walks the regions in address order, jumps past each one it meets and    *)
(* stops at the first gap that is large enough; find_gap tries from the    *)
(* hint first and starts over at the arena's start.  One step is one turn  *)
(* of the loop.  The question is whether the walk computes what            *)
(* AddressSpace calls FirstFit, for every ledger, arena, alignment and     *)
(* hint: Plan and every theorem about it use FirstFit.                     *)
(***************************************************************************)
EXTENDS AddressSpace

CONSTANTS
  Ledgers,   (* the ledgers searched                                        *)
  Arenas,    (* [start, end] ranges                                         *)
  Sizes,     (* sizes asked for, whole pages                                *)
  Aligns,    (* alignments asked for, powers of two and at least a page     *)
  SearchHints (* hints                                                      *)

(* The inputs the allocator can pass.                                      *)
InputsOK ==
  /\ \A L \in Ledgers : L \subseteq Regions /\ Disjoint(L)
  /\ \A a \in Arenas : a.start \in Addr /\ a.end \in Addr
  /\ Sizes \subseteq Nat \ {0} /\ Aligns \subseteq Nat \ {0} /\ SearchHints \subseteq Nat

ASSUME GapSearchAssumption == InputsOK

VARIABLES
  asked,     (* the input of the search, constant                           *)
  fromHint,  (* searching from the hint (TRUE) or from arena.start          *)
  cursor,    (* the candidate address                                       *)
  next,      (* the regions the walk has still to visit                     *)
  answer     (* set of the answers given so far: {} while searching         *)

searchVars == <<asked, fromHint, cursor, next, answer>>

NoGap == MaxAddr + 1

(* self.regions is sorted by address: the next region is the lowest left.  *)
LowestRegion(S) == CHOOSE r \in S : \A s \in S : r.addr <= s.addr

(* find_gap_from's first line; `from` is the hint or the arena's start.    *)
StartCursor(from) == AlignUp(Max({from, asked.arena.start}), asked.align)

SearchInit ==
  /\ asked \in [ledger : Ledgers, arena : Arenas, size : Sizes, align : Aligns,
                hint : SearchHints]
  /\ fromHint = (asked.hint < asked.arena.end)
  /\ cursor = StartCursor(IF asked.hint < asked.arena.end THEN asked.hint ELSE asked.arena.start)
  /\ next = asked.ledger
  /\ answer = {}

Searching == answer = {}

(* A search ends with an address, or without: then the search from the     *)
(* hint is followed by one from the arena's start, and that one by         *)
(* NoAvailableGap.                                                         *)
Found(addr) ==
  /\ answer' = {addr}
  /\ UNCHANGED <<fromHint, cursor, next>>

(* The second search that does not remember that it is one (mutant).       *)
NotFoundRestarts ==
  IF asked.hint < asked.arena.end
    THEN /\ cursor' = StartCursor(asked.arena.start)
         /\ next' = asked.ledger
         /\ UNCHANGED <<fromHint, answer>>
    ELSE /\ answer' = {NoGap}
         /\ UNCHANGED <<fromHint, cursor, next>>

NotFound ==
  IF fromHint
    THEN /\ fromHint' = FALSE
         /\ cursor' = StartCursor(asked.arena.start)
         /\ next' = asked.ledger
         /\ UNCHANGED answer
    ELSE /\ answer' = {NoGap}
         /\ UNCHANGED <<fromHint, cursor, next>>

(* u64::saturating_sub(limit, cursor) >= size                              *)
Room(limit) == limit >= cursor /\ limit - cursor >= asked.size

(* The loop has broken off or run out of regions.                          *)
AtEnd ==
  next # {} => End(LowestRegion(next)) > asked.arena.start /\ LowestRegion(next).addr >= asked.arena.end

(* A region below the arena is skipped.                                    *)
SkipBelow ==
  /\ Searching /\ ~AtEnd
  /\ End(LowestRegion(next)) <= asked.arena.start
  /\ next' = next \ {LowestRegion(next)}
  /\ UNCHANGED <<asked, fromHint, cursor, answer>>

(* A region past the cursor: is the gap before it large enough?            *)
GapBefore(r) ==
  /\ cursor < r.addr
  /\ Room(IF r.addr < asked.arena.end THEN r.addr ELSE asked.arena.end)

TakeGap ==
  /\ Searching /\ ~AtEnd
  /\ End(LowestRegion(next)) > asked.arena.start
  /\ GapBefore(LowestRegion(next))
  /\ Found(cursor)
  /\ UNCHANGED asked

(* Moving past a region forgets the alignment (mutant of Past).            *)
PastUnaligned(r) == IF cursor < End(r) THEN End(r) ELSE cursor

Past(r) == IF cursor < End(r) THEN AlignUp(End(r), asked.align) ELSE cursor

Advance ==
  /\ Searching /\ ~AtEnd
  /\ End(LowestRegion(next)) > asked.arena.start
  /\ ~GapBefore(LowestRegion(next))
  /\ cursor' = Past(LowestRegion(next))
  /\ next' = IF cursor' >= asked.arena.end THEN {} ELSE next \ {LowestRegion(next)}
  /\ UNCHANGED <<asked, fromHint, answer>>

(* After the loop: the rest of the arena.                                  *)
Finish ==
  /\ Searching /\ AtEnd
  /\ IF Room(asked.arena.end) THEN Found(cursor) ELSE NotFound
  /\ UNCHANGED asked

SearchNext == SkipBelow \/ TakeGap \/ Advance \/ Finish

SearchSpec == SearchInit /\ [][SearchNext]_searchVars /\ WF_searchVars(SearchNext)
-----------------------------------------------------------------------------
(* What find_gap promises: the first fit.                                  *)
Expected == FirstFit(asked.ledger, asked.size, asked.align, asked.arena, asked.hint)

(* The loop returns the first fit, and NoAvailableGap exactly when there   *)
(* is none: dynamic allocation fails only when the arena is really full.   *)
ComputesFirstFit ==
  ~Searching =>
    answer = IF Expected = {} THEN {NoGap} ELSE Expected

(* The search ends, restart included.                                      *)
Terminates == <>(answer # {})
=============================================================================
