--------------------------- MODULE MCGuestMemory ---------------------------
(***************************************************************************)
(* A small address space for TLC: two addresses per page, so that a range  *)
(* can start or end in the middle of one, and eight pages laid out like    *)
(* the runtime's: scratch, the ELF arena, and inside it the mmap arena,    *)
(* the JNI tables, the stack and the sentinel.  Page 0 stays free (a hint  *)
(* of 1 rounds down to it); the last page can never be mapped, its end     *)
(* overflows.                                                              *)
(***************************************************************************)
EXTENDS GuestMemory

MCElfArena == [start |-> 4, end |-> 14]
MCMmapArena == [start |-> 6, end |-> 10]
MCScratch == [addr |-> 2, size |-> 2]
MCStack == [addr |-> 8, size |-> 2]
MCJni == [addr |-> 10, size |-> 2]
MCSentinel == [addr |-> 12, size |-> 2]

RX == {"r", "x"}
RW == {"r", "w"}

(* A text segment and a data segment that starts in the middle of a page   *)
(* and shares it with the text.                                            *)
MCSharedPageImage ==
  [segs |-> <<[vaddr |-> 0, memsz |-> 1, perms |-> RX],
              [vaddr |-> 1, memsz |-> 1, perms |-> RW]>>,
   align |-> 1, relro |-> TRUE]

(* One text page and one data page.                                        *)
MCTwoPageImage ==
  [segs |-> <<[vaddr |-> 0, memsz |-> 2, perms |-> RX],
              [vaddr |-> 2, memsz |-> 1, perms |-> RW]>>,
   align |-> 2, relro |-> TRUE]

MCPagedImage == {MCTwoPageImage}
MCSharedImage == {MCSharedPageImage}
MCOneProt == {{"r"}}
=============================================================================
