--------------------------- MODULE FdTableProofs ---------------------------
(***************************************************************************)
(* Proofs about FdTable.  One invariant carries the three slot properties  *)
(* and the cursor bound: every entry is well formed (EntryOK), numbered by *)
(* its slot, and either below next_fd or put there by dup3.  A second one, *)
(* NInv, says what an entry is for and that each device's account balances.*)
(***************************************************************************)
EXTENDS FdTable, FiniteSetTheorems, TLAPS

Names == {s.name : s \in Sources} \cup {"none"}

Entries ==
  [fd : Int, kind : {"Stdin", "Stdout", "Stderr", "File", "Device"},
   path : Paths \cup {"none"}, source : Names, from : {"Bytes", "Host", "Dynamic"},
   len : Nat, cursor : Nat, dev : Nat, opened : Int]

SizeIn(e, h) == IF e.from = "Host" THEN h[e.source] ELSE e.len

EntryOK(e, h) ==
  /\ e \in Entries
  /\ e.from = "Host" => e.source \in HostFiles
  /\ e.from # "Dynamic" => e.cursor <= SizeIn(e, h)

SlotOK(e, fd, nf, h, pl) ==
  /\ EntryOK(e, h) /\ e.fd = fd
  /\ fd < nf \/ fd \in pl

Sound(t, nf, h, pl) ==
  /\ nf \in Int /\ nf >= 3
  /\ h \in [HostFiles -> Nat]
  /\ DOMAIN t \subseteq Int /\ Streams \subseteq DOMAIN t
  /\ \A fd \in Streams : t[fd].kind = StreamKind[fd] /\ t[fd].opened = fd
  /\ \A fd \in DOMAIN t : SlotOK(t[fd], fd, nf, h, pl)

(* The last conjunct types Cardinality(DOMAIN devices), the next instance. *)
IInv == Sound(table, nextFd, hostLen, placed) /\ IsFiniteSet(DOMAIN devices)

(* The invariant gives the properties.                                     *)
LEMMA Meaning == IInv => SlotNumber /\ StreamsStay /\ AllocatedBelow /\ CursorInFile
BY DEF IInv, Sound, SlotOK, EntryOK, SizeIn, SlotNumber, StreamsStay,
       AllocatedBelow, CursorInFile, Size

(* Three entries at boot, each its own stream.                             *)
LEMMA InitSound == Init => IInv
<1> SUFFICES ASSUME Init PROVE IInv
  OBVIOUS
<1> USE FdTableAssumption
<1>1. hostLen \in [HostFiles -> Nat]
  <2>1. ASSUME NEW f \in HostFiles PROVE (CHOOSE s \in Sources : s.name = f).len \in Nat
    <3>1. \E s \in Sources : s.name = f
      BY <2>1 DEF HostFiles
    <3>2. (CHOOSE s \in Sources : s.name = f) \in Sources
      BY <3>1
    <3> QED BY <3>2
  <2> QED BY <2>1 DEF Init
<1>2. ASSUME NEW fd \in Streams PROVE SlotOK(StreamEntry(fd), fd, 3, hostLen, {})
  BY <1>2 DEF SlotOK, EntryOK, SizeIn, StreamEntry, Entry, NoSource, Entries, Names,
              Streams, StreamKind
<1>3. ASSUME NEW fd \in Streams
      PROVE StreamEntry(fd).kind = StreamKind[fd] /\ StreamEntry(fd).opened = fd
  BY <1>3 DEF StreamEntry, Entry
<1>4. table = [fd \in Streams |-> StreamEntry(fd)] /\ nextFd = 3 /\ placed = {}
  BY DEF Init
<1>5. Streams \subseteq Int
  BY DEF Streams
<1>6. DOMAIN table = Streams /\ \A fd \in Streams : table[fd] = StreamEntry(fd)
  BY <1>4
<1>7. \A fd \in DOMAIN table : SlotOK(table[fd], fd, nextFd, hostLen, placed)
  BY <1>2, <1>4, <1>6
<1>8. DOMAIN devices = {}
  BY DEF Init
<1>9. IsFiniteSet(DOMAIN devices)
  BY <1>8, FS_EmptySet
<1> QED BY <1>1, <1>3, <1>4, <1>5, <1>6, <1>7, <1>9 DEF IInv, Sound

(* Putting a well-formed entry at a number that is no stream's.            *)
LEMMA PutSound ==
  ASSUME NEW t, NEW nf, NEW h, NEW pl, Sound(t, nf, h, pl),
         NEW fd \in Int, fd \notin Streams, NEW e, EntryOK(e, h), e.fd = fd,
         NEW nf2 \in Int, nf2 >= nf, NEW pl2, pl \subseteq pl2, fd < nf2 \/ fd \in pl2
  PROVE  Sound(At(t, fd, e), nf2, h, pl2)
<1> DEFINE t2 == At(t, fd, e)
<1>1. DOMAIN t2 = DOMAIN t \cup {fd} /\ t2[fd] = e
  BY DEF At
<1>2. \A x \in DOMAIN t : x # fd => t2[x] = t[x]
  BY DEF At
<1>3. ASSUME NEW x \in DOMAIN t2 PROVE SlotOK(t2[x], x, nf2, h, pl2)
  <2>1. CASE x = fd
    BY <1>1, <2>1 DEF SlotOK
  <2>2. CASE x # fd
    BY <1>1, <1>2, <1>3, <2>2 DEF Sound, SlotOK
  <2> QED BY <2>1, <2>2
<1>4. ASSUME NEW x \in Streams PROVE t2[x].kind = StreamKind[x] /\ t2[x].opened = x
  BY <1>2, <1>4 DEF Sound
<1> HIDE DEF t2
<1>5. Sound(t2, nf2, h, pl2)
  BY <1>1, <1>3, <1>4 DEF Sound
<1> QED BY <1>5 DEF t2

(* Changing an entry that is no stream's in place, while host files grow.  *)
LEMMA UpdateSound ==
  ASSUME NEW t, NEW nf, NEW h, NEW pl, Sound(t, nf, h, pl),
         NEW fd \in DOMAIN t, fd \notin Streams,
         NEW h2 \in [HostFiles -> Nat], \A f \in HostFiles : h[f] <= h2[f],
         NEW e, EntryOK(e, h2), e.fd = fd,
         NEW t2, DOMAIN t2 = DOMAIN t, t2[fd] = e,
         \A x \in DOMAIN t : x # fd => t2[x] = t[x]
  PROVE  Sound(t2, nf, h2, pl)
<1>1. ASSUME NEW x \in DOMAIN t PROVE SlotOK(t2[x], x, nf, h2, pl)
  <2>0. SlotOK(t[x], x, nf, h, pl)
    BY DEF Sound
  <2>1. CASE x = fd
    BY <2>0, <2>1 DEF SlotOK
  <2>2. CASE x # fd
    <3>1. t2[x] = t[x]
      BY <2>2
    <3>2. h \in [HostFiles -> Nat]
      BY DEF Sound
    <3>3. EntryOK(t[x], h2)
      BY <2>0, <3>2 DEF SlotOK, EntryOK, SizeIn, Entries
    <3> QED BY <2>0, <3>1, <3>3 DEF SlotOK
  <2> QED BY <2>1, <2>2
<1>2. ASSUME NEW x \in Streams PROVE t2[x].kind = StreamKind[x] /\ t2[x].opened = x
  BY <1>2 DEF Sound
<1> QED BY <1>1, <1>2 DEF Sound

(* A copy of an entry is well formed and carries the number it is given.   *)
LEMMA CopyOK ==
  ASSUME NEW e, NEW h, EntryOK(e, h), NEW fd \in Int
  PROVE  EntryOK(CopyTo(e, fd), h) /\ CopyTo(e, fd).fd = fd
BY DEF EntryOK, Entries, CopyTo, SizeIn

(* Copying, pushing out and closing name no new device.                    *)
LEMMA SameDevices ==
  ASSUME NEW devs, NEW e, NEW fd
  PROVE  /\ DOMAIN Made(devs, e) = DOMAIN devs
         /\ DOMAIN Evicted(devs, fd) = DOMAIN devs
         /\ DOMAIN ClosedDevices(e) = DOMAIN devices
BY DEF Made, Evicted, ClosedDevices

(* openat of a file or a device and dup: the entry goes to next_fd.        *)
LEMMA AllocateSound ==
  ASSUME IInv, NEW e, EntryOK(e, hostLen), e.fd = nextFd,
         table' = At(table, nextFd, e), nextFd' = nextFd + 1,
         UNCHANGED <<hostLen, placed>>, IsFiniteSet(DOMAIN devices)'
  PROVE  IInv'
<1>1. /\ Sound(table, nextFd, hostLen, placed) /\ nextFd \in Int /\ nextFd \notin Streams
      /\ nextFd + 1 \in Int /\ nextFd + 1 >= nextFd /\ nextFd < nextFd + 1
  BY DEF IInv, Sound, Streams
<1>2. Sound(At(table, nextFd, e), nextFd + 1, hostLen, placed)
  BY <1>1, PutSound
<1> QED BY <1>2 DEF IInv

LEMMA OpenFileSound == ASSUME IInv, NEW path \in Paths, OpenFile(path) PROVE IInv'
<1>1. PICK source \in Sources : Allocate(FileEntry(nextFd, path, source))
  BY DEF OpenFile
<1>2. hostLen \in [HostFiles -> Nat] /\ nextFd \in Int
  BY DEF IInv, Sound
<1>3. source.name \in Names /\ (source.kind = "Host" => source.name \in HostFiles)
  BY DEF Names, HostFiles
<1>4. source.kind \in {"Bytes", "Host", "Dynamic"} /\ source.len \in Nat
  BY FdTableAssumption
<1>5. EntryOK(FileEntry(nextFd, path, source), hostLen)
  BY <1>2, <1>3, <1>4 DEF EntryOK, FileEntry, Entry, Entries, SizeIn
<1>6. FileEntry(nextFd, path, source).fd = nextFd
  BY DEF FileEntry, Entry
<1>7. devices' = Evicted(devices, nextFd)
  BY DEF OpenFile
<1>8. IsFiniteSet(DOMAIN devices)'
  BY <1>7, SameDevices DEF IInv
<1> QED BY <1>1, <1>5, <1>6, <1>8, AllocateSound DEF Allocate

LEMMA OpenDeviceSound == ASSUME IInv, NEW path \in Paths, OpenDevice(path) PROVE IInv'
<1> DEFINE dev == Cardinality(DOMAIN devices) + 1
           e == DeviceEntry(nextFd, path, dev)
<1>1. Allocate(e)
  BY DEF OpenDevice
<1>2. dev \in Nat
  BY FS_CardinalityType DEF IInv
<1>3. nextFd \in Int
  BY DEF IInv, Sound
<1>4. EntryOK(e, hostLen) /\ e.fd = nextFd
  BY <1>2, <1>3 DEF EntryOK, DeviceEntry, Entry, NoSource, Entries, Names, SizeIn
<1>5. DOMAIN devices' = DOMAIN Evicted(devices, nextFd) \cup {dev}
  BY DEF OpenDevice, At
<1> HIDE DEF dev, e
<1>6. IsFiniteSet(DOMAIN devices)'
  <2>1. DOMAIN Evicted(devices, nextFd) = DOMAIN devices
    BY SameDevices
  <2>2. IsFiniteSet(DOMAIN devices \cup {dev})
    BY FS_AddElement DEF IInv
  <2> QED BY <1>5, <2>1, <2>2
<1> QED BY <1>1, <1>4, <1>6, AllocateSound DEF Allocate

LEMMA CloseSound == ASSUME IInv, NEW fd \in Fds, Close(fd) PROVE IInv'
<1>1. CASE fd \in Streams \/ fd \notin DOMAIN table
  BY <1>1 DEF Close, Refused, kernel, history, IInv
<1>2. CASE fd \notin Streams /\ fd \in DOMAIN table
  <2>1. /\ table' = Restrict(table, DOMAIN table \ {fd})
        /\ devices' = ClosedDevices(table[fd])
        /\ UNCHANGED <<nextFd, hostLen, placed>>
    BY <1>2 DEF Close
  <2>2. DOMAIN table' = DOMAIN table \ {fd} /\ \A x \in DOMAIN table' : table'[x] = table[x]
    BY <2>1 DEF Restrict
  <2>3. Sound(table', nextFd, hostLen, placed)
    BY <1>2, <2>2 DEF IInv, Sound
  <2>4. IsFiniteSet(DOMAIN devices)'
    BY <2>1, SameDevices DEF IInv
  <2> QED BY <2>1, <2>3, <2>4 DEF IInv
<1> QED BY <1>1, <1>2

LEMMA DupSound == ASSUME IInv, NEW fd \in Fds, Dup(fd) PROVE IInv'
<1>1. CASE fd \notin DOMAIN table
  BY <1>1 DEF Dup, Refused, kernel, history, IInv
<1>2. CASE fd \in DOMAIN table
  <2>1. /\ table' = At(table, nextFd, CopyTo(table[fd], nextFd)) /\ nextFd' = nextFd + 1
        /\ devices' = Evicted(Made(devices, table[fd]), nextFd)
        /\ UNCHANGED <<hostLen, placed>>
    BY <1>2 DEF Dup
  <2>2. EntryOK(table[fd], hostLen) /\ nextFd \in Int
    BY <1>2 DEF IInv, Sound, SlotOK
  <2>3. EntryOK(CopyTo(table[fd], nextFd), hostLen) /\ CopyTo(table[fd], nextFd).fd = nextFd
    BY <2>2, CopyOK
  <2>4. IsFiniteSet(DOMAIN devices)'
    BY <2>1, SameDevices DEF IInv
  <2> QED BY <2>1, <2>3, <2>4, AllocateSound
<1> QED BY <1>1, <1>2

LEMMA Dup3Sound ==
  ASSUME IInv, NEW fd \in Fds, NEW target \in Targets, Dup3(fd, target) PROVE IInv'
<1>1. CASE fd \notin DOMAIN table \/ fd = target \/ target \in Streams
  BY <1>1 DEF Dup3, Refused, kernel, history, IInv
<1>2. CASE fd \in DOMAIN table /\ fd # target /\ target \notin Streams
  <2>1. /\ table' = At(table, target, CopyTo(table[fd], target))
        /\ devices' = Evicted(Made(devices, table[fd]), target)
        /\ placed' = placed \cup {target} /\ UNCHANGED <<nextFd, hostLen>>
    BY <1>2 DEF Dup3, Replace
  <2>2. EntryOK(table[fd], hostLen) /\ target \in Int
    BY <1>2, FdTableAssumption DEF IInv, Sound, SlotOK
  <2>3. EntryOK(CopyTo(table[fd], target), hostLen) /\ CopyTo(table[fd], target).fd = target
    BY <2>2, CopyOK
  <2>4. /\ Sound(table, nextFd, hostLen, placed) /\ nextFd \in Int /\ nextFd >= nextFd
        /\ placed \subseteq placed \cup {target} /\ target \in placed \cup {target}
    BY DEF IInv, Sound
  <2>5. Sound(At(table, target, CopyTo(table[fd], target)), nextFd, hostLen, placed \cup {target})
    BY <1>2, <2>2, <2>3, <2>4, PutSound
  <2>6. IsFiniteSet(DOMAIN devices)'
    BY <2>1, SameDevices DEF IInv
  <2> QED BY <2>1, <2>5, <2>6 DEF IInv
<1> QED BY <1>1, <1>2

(* read moves the cursor of one file, by what is left of it at most unless *)
(* a provider decides what is left.                                        *)
LEMMA ReadFileSound ==
  ASSUME IInv, NEW fd \in DOMAIN table, table[fd].kind = "File", NEW n \in Counts,
         ReadFile(fd, n)
  PROVE  IInv'
<1>1. CASE Refused("read", fd, "EFAULT")
  BY <1>1 DEF Refused, kernel, history, IInv
<1>2. ASSUME NEW got \in Got(table[fd], n), table' = [table EXCEPT ![fd].cursor = @ + got],
             UNCHANGED <<nextFd, hostLen, history>>
      PROVE  IInv'
  <2> DEFINE e == [table[fd] EXCEPT !.cursor = @ + got]
  <2>1. EntryOK(table[fd], hostLen) /\ table[fd].fd = fd /\ hostLen \in [HostFiles -> Nat]
    BY DEF IInv, Sound, SlotOK
  <2>2. Size(table[fd]) \in Nat /\ table[fd].cursor \in Nat /\ n \in Nat
    BY <2>1, FdTableAssumption DEF EntryOK, Entries, Size
  <2>3. got \in Nat /\ (table[fd].from # "Dynamic" => table[fd].cursor + got <= Size(table[fd]))
    BY <2>1, <2>2 DEF Got, EntryOK, SizeIn, Size
  <2>4. EntryOK(e, hostLen) /\ e.fd = fd
    BY <2>1, <2>2, <2>3 DEF EntryOK, Entries, SizeIn, Size
  <2>5. fd \notin Streams
    BY DEF IInv, Sound, StreamKind, Streams
  <2>6. DOMAIN table' = DOMAIN table /\ table'[fd] = e
        /\ \A x \in DOMAIN table : x # fd => table'[x] = table[x]
    BY <1>2
  <2>7. Sound(table, nextFd, hostLen, placed) /\ \A f \in HostFiles : hostLen[f] <= hostLen[f]
    BY <2>1 DEF IInv
  <2> HIDE DEF e
  <2>8. Sound(table', nextFd, hostLen, placed)
    BY <2>1, <2>4, <2>5, <2>6, <2>7, UpdateSound
  <2> QED BY <1>2, <2>8 DEF IInv, history
<1> QED BY <1>1, <1>2 DEF ReadFile

LEMMA ReadSound == ASSUME IInv, NEW fd \in Fds, NEW n \in Counts, Read(fd, n) PROVE IInv'
<1>1. CASE fd \in DOMAIN table /\ table[fd].kind = "File"
  BY <1>1, ReadFileSound DEF Read
<1>2. CASE ~(fd \in DOMAIN table /\ table[fd].kind = "File")
  <2>1. UNCHANGED <<kernel, history>>
    BY <1>2 DEF Read, Refused, DeviceAnswers
  <2> QED BY <2>1 DEF kernel, history, IInv
<1> QED BY <1>1, <1>2

(* write to a file: the copy of a Bytes file, or the shared host file.     *)
LEMMA WriteFileSound ==
  ASSUME IInv, NEW fd \in DOMAIN table, table[fd].kind = "File", NEW n \in Counts,
         WriteFile(fd, n)
  PROVE  IInv'
<1> DEFINE end == table[fd].cursor + n
<1>1. /\ EntryOK(table[fd], hostLen) /\ table[fd].fd = fd /\ hostLen \in [HostFiles -> Nat]
      /\ Sound(table, nextFd, hostLen, placed)
  BY DEF IInv, Sound, SlotOK
<1>2. table[fd].cursor \in Nat /\ table[fd].len \in Nat /\ n \in Nat /\ end \in Nat
  BY <1>1, FdTableAssumption DEF EntryOK, Entries
<1>3. fd \notin Streams
  BY DEF IInv, Sound, StreamKind, Streams
<1>4. CASE table[fd].from = "Bytes"
  <2> DEFINE e == [table[fd] EXCEPT !.cursor = end, !.len = Longer(@, end)]
  <2>1. WriteBytes(fd, n)
    BY <1>4 DEF WriteFile
  <2>2. table' = [table EXCEPT ![fd].cursor = end, ![fd].len = Longer(@, end)]
        /\ UNCHANGED <<nextFd, hostLen, history>>
    BY <2>1 DEF WriteBytes
  <2>3. EntryOK(e, hostLen) /\ e.fd = fd
    <3> DEFINE len == Longer(table[fd].len, end)
    <3>1. len \in Nat /\ end <= len
      BY <1>2 DEF Longer
    <3>2. e = [table[fd] EXCEPT !.cursor = end, !.len = len]
      OBVIOUS
    <3>3. table[fd] \in Entries
      BY <1>1 DEF EntryOK
    <3> HIDE DEF end, len, e
    <3>4. e \in Entries /\ e.len = len /\ e.cursor = end /\ e.from = "Bytes" /\ e.fd = fd
      BY <1>1, <1>2, <1>4, <3>1, <3>2, <3>3 DEF Entries
    <3> QED BY <3>1, <3>4 DEF EntryOK, SizeIn
  <2>4. DOMAIN table' = DOMAIN table /\ table'[fd] = e
        /\ \A x \in DOMAIN table : x # fd => table'[x] = table[x]
    BY <1>1, <2>2 DEF EntryOK, Entries
  <2>5. \A f \in HostFiles : hostLen[f] <= hostLen[f]
    BY <1>1
  <2> HIDE DEF e
  <2>6. Sound(table', nextFd, hostLen, placed)
    BY <1>1, <1>3, <2>3, <2>4, <2>5, UpdateSound
  <2> QED BY <2>2, <2>6 DEF IInv, history
<1>5. CASE table[fd].from = "Host"
  <2> DEFINE f == table[fd].source
  <2>1. WriteHost(fd, n)
    BY <1>5 DEF WriteFile
  <2>2. PICK k \in table[fd].cursor..end :
               /\ hostLen' = [hostLen EXCEPT ![f] = Longer(@, k)]
               /\ table' = [table EXCEPT ![fd] = Moved(table[fd], end, k)]
    BY <2>1 DEF WriteHost
  <2>3. UNCHANGED <<nextFd, history>>
    BY <2>1 DEF WriteHost
  <2>4. f \in HostFiles /\ k \in Nat
    BY <1>1, <1>2, <1>5 DEF EntryOK
  <2> DEFINE e == Moved(table[fd], end, k)
  <2>5. /\ hostLen' \in [HostFiles -> Nat] /\ hostLen'[f] >= k
        /\ \A x \in HostFiles : hostLen[x] <= hostLen'[x]
    BY <1>1, <2>2, <2>4 DEF Longer
  <2>6. EntryOK(e, hostLen') /\ e.fd = fd
    BY <1>1, <1>2, <1>5, <2>4, <2>5 DEF EntryOK, Entries, SizeIn, Moved
  <2>7. DOMAIN table' = DOMAIN table /\ table'[fd] = e
        /\ \A x \in DOMAIN table : x # fd => table'[x] = table[x]
    BY <2>2
  <2> HIDE DEF e
  <2>8. Sound(table', nextFd, hostLen', placed)
    BY <1>1, <1>3, <2>5, <2>6, <2>7, UpdateSound
  <2> QED BY <2>3, <2>8 DEF IInv, history
<1>6. CASE table[fd].from = "Dynamic"
  <2>1. UNCHANGED <<kernel, history>>
    BY <1>6 DEF WriteFile, Refused
  <2> QED BY <2>1 DEF kernel, history, IInv
<1> QED BY <1>1, <1>4, <1>5, <1>6 DEF EntryOK, Entries

LEMMA WriteSound == ASSUME IInv, NEW fd \in Fds, NEW n \in Counts, Write(fd, n) PROVE IInv'
<1>1. CASE UNCHANGED <<table, nextFd, hostLen, history>>
  BY <1>1 DEF history, IInv
<1>2. CASE fd \in DOMAIN table /\ table[fd].kind = "File" /\ WriteFile(fd, n)
  BY <1>2, WriteFileSound
<1>3. \/ UNCHANGED <<table, nextFd, hostLen, history>>
      \/ fd \in DOMAIN table /\ table[fd].kind = "File" /\ WriteFile(fd, n)
  BY DEF Write, WriteStdout, Refused, DeviceAnswers, kernel
<1> QED BY <1>1, <1>2, <1>3

LEMMA StepSound == IInv /\ [Next]_vars => IInv'
<1> SUFFICES ASSUME IInv, [Next]_vars PROVE IInv'
  OBVIOUS
<1>1. CASE UNCHANGED vars
  BY <1>1 DEF vars, kernel, history, IInv
<1>2. ASSUME NEW path \in Paths, NEW source \in Sources, MountFile(path, source) PROVE IInv'
  BY <1>2 DEF MountFile, Refused, kernel, history, IInv
<1>3. ASSUME NEW path \in Paths, MountDevice(path) PROVE IInv'
  BY <1>3 DEF MountDevice, history, IInv
<1>4. ASSUME NEW path \in Paths, OpenFails(path) PROVE IInv'
  BY <1>4 DEF OpenFails, Refused, kernel, history, IInv
<1>5. ASSUME NEW fd \in Fds, Query(fd) PROVE IInv'
  BY <1>5 DEF Query, Refused, kernel, history, IInv
<1> QED BY <1>1, <1>2, <1>3, <1>4, <1>5, OpenFileSound, OpenDeviceSound, CloseSound,
           DupSound, Dup3Sound, ReadSound, WriteSound DEF Next

LEMMA Invariance == Spec => []IInv
BY InitSound, StepSound, PTL DEF Spec
-----------------------------------------------------------------------------
(***************************************************************************)
(* Whatever the guest opens, copies, replaces and closes, an entry carries *)
(* the number of the slot it sits in.                                      *)
(***************************************************************************)
THEOREM SlotsNumbered == Spec => []SlotNumber
<1>1. IInv => SlotNumber
  BY Meaning
<1> QED BY <1>1, Invariance, PTL

(***************************************************************************)
(* Slots 0, 1 and 2 keep the streams of boot under every sequence of       *)
(* calls and every i32 argument.                                           *)
(***************************************************************************)
THEOREM StreamsKept == Spec => []StreamsStay
<1>1. IInv => StreamsStay
  BY Meaning
<1> QED BY <1>1, Invariance, PTL

(***************************************************************************)
(* The only way allocate can meet a live entry is an earlier dup3.         *)
(***************************************************************************)
THEOREM OverwriteNeedsDup3 == Spec => []AllocatedBelow
<1>1. IInv => AllocatedBelow
  BY Meaning
<1> QED BY <1>1, Invariance, PTL

(***************************************************************************)
(* For every file, shared or copied, and every mix of reads, writes and    *)
(* partial failures, no cursor passes the end of its file.                 *)
(***************************************************************************)
THEOREM CursorsInside == Spec => []CursorInFile
<1>1. IInv => CursorInFile
  BY Meaning
<1> QED BY <1>1, Invariance, PTL

(***************************************************************************)
(* The table keeps all four, since one induction carries them.             *)
(***************************************************************************)
THEOREM TableAlwaysSound == Spec => []TableSound
<1>1. IInv => TableSound
  BY Meaning DEF TableSound
<1> QED BY <1>1, Invariance, PTL
-----------------------------------------------------------------------------
(***************************************************************************)
(* The second induction: what an entry is for.  SoundDevices relates the   *)
(* table, the mounts and the device instances; each account balances.      *)
(***************************************************************************)
Account == [node : Nat, made : Nat, closed : Nat, dropped : Nat]

Behind(e, v, devs) ==
  /\ e.dev # 0 <=> e.kind = "Device"
  /\ e.dev \in DOMAIN devs \cup {0}
  /\ e.path # "none" =>
       /\ e.path \in DOMAIN v
       /\ v[e.path] = IF e.kind = "Device"
                        THEN [type |-> "Device", node |-> devs[e.dev].node]
                        ELSE [type |-> "File", node |-> e.source]

Holders(t, d) == {fd \in DOMAIN t : t[fd].dev = d}

Balanced(t, devs, d) ==
  devs[d].made = devs[d].closed + devs[d].dropped + Cardinality(Holders(t, d))

SoundDevices(t, v, devs) ==
  /\ \E n \in Nat : devs \in [1..n -> Account]
  /\ IsFiniteSet(DOMAIN t)
  /\ \A fd \in DOMAIN t : Behind(t[fd], v, devs)
  /\ \A d \in DOMAIN devs : Balanced(t, devs, d)

Mounts(v) ==
  \A p \in DOMAIN v : /\ v[p] = [type |-> v[p].type, node |-> v[p].node]
                      /\ v[p].type \in {"File", "Device"}
                      /\ v[p].type = "Device" => v[p].node \in Nat

NInv ==
  /\ SoundDevices(table, vfs, devices) /\ Mounts(vfs)
  /\ table = [fd \in DOMAIN table |-> table[fd]]
  /\ nextFd \in 3..(MaxFd + 1) /\ factories \in Nat /\ stdout \in Nat

LEMMA InitNodes == Init => NInv
<1> SUFFICES ASSUME Init PROVE NInv
  OBVIOUS
<1>1. table = [fd \in Streams |-> StreamEntry(fd)] /\ nextFd = 3 /\ stdout = 0
  BY DEF Init
<1>2. DOMAIN table = 0..2 /\ table = [fd \in DOMAIN table |-> table[fd]]
  BY <1>1 DEF Streams
<1>3. devices = [d \in {} |-> d] /\ DOMAIN devices = {}
  BY DEF Init
<1>4. devices \in [1..0 -> Account]
  BY <1>3
<1>5. ASSUME NEW fd \in DOMAIN table PROVE Behind(table[fd], vfs, devices)
  BY <1>1, <1>5 DEF Behind, StreamEntry, Entry, NoSource, StreamKind, Streams
<1>6. IsFiniteSet(DOMAIN table)
  <2>1. 0 \in Int /\ 2 \in Int
    OBVIOUS
  <2>2. IsFiniteSet(0..2)
    BY <2>1, FS_Interval
  <2> QED BY <1>2, <2>2
<1>7. SoundDevices(table, vfs, devices)
  BY <1>3, <1>4, <1>5, <1>6 DEF SoundDevices
<1>8. factories \in Nat
  BY FdTableAssumption DEF Init
<1>9. Mounts(vfs)
  <2>1. ASSUME NEW p \in Range(Builtins)
        PROVE  (CHOOSE i \in DOMAIN Builtins : Builtins[i] = p) \in Nat
    <3>1. \E i \in DOMAIN Builtins : Builtins[i] = p
      BY <2>1 DEF Range
    <3>2. DOMAIN Builtins \subseteq Nat
      BY FdTableAssumption
    <3> QED BY <3>1, <3>2
  <2>2. vfs = [p \in Range(Builtins) |->
                 [type |-> "Device", node |-> CHOOSE i \in DOMAIN Builtins : Builtins[i] = p]]
    BY DEF Init
  <2> QED BY <2>1, <2>2 DEF Mounts
<1>10. nextFd \in 3..(MaxFd + 1)
  BY <1>1, FdTableAssumption
<1> QED BY <1>1, <1>2, <1>7, <1>8, <1>9, <1>10 DEF NInv

(* Putting an entry takes one holder from the old and gives the new one.   *)
LEMMA HoldersPut ==
  ASSUME NEW t, IsFiniteSet(DOMAIN t), NEW fd, NEW e, NEW d
  PROVE  /\ Cardinality(Holders(t, d)) \in Nat
         /\ Cardinality(Holders(At(t, fd, e), d)) =
              (IF fd \in DOMAIN t /\ t[fd].dev = d THEN Cardinality(Holders(t, d)) - 1
                                                   ELSE Cardinality(Holders(t, d)))
                + (IF e.dev = d THEN 1 ELSE 0)
<1> DEFINE h == Holders(t, d)
           h2 == Holders(At(t, fd, e), d)
<1>1. IsFiniteSet(h)
  BY FS_Subset DEF Holders
<1>2. Cardinality(h) \in Nat
  BY <1>1, FS_CardinalityType
<1>3. IsFiniteSet(h \ {fd}) /\ Cardinality(h \ {fd}) = IF fd \in h THEN Cardinality(h) - 1 ELSE Cardinality(h)
  BY <1>1, FS_RemoveElement
<1>4. Cardinality((h \ {fd}) \cup {fd}) = Cardinality(h \ {fd}) + 1
  BY <1>3, FS_AddElement
<1>5. fd \in h <=> fd \in DOMAIN t /\ t[fd].dev = d
  BY DEF Holders
<1>6. h2 = IF e.dev = d THEN (h \ {fd}) \cup {fd} ELSE h \ {fd}
  BY DEF Holders, At
<1> HIDE DEF h, h2
<1>7. Cardinality(h2) = (IF fd \in DOMAIN t /\ t[fd].dev = d THEN Cardinality(h) - 1 ELSE Cardinality(h))
                          + (IF e.dev = d THEN 1 ELSE 0)
  BY <1>2, <1>3, <1>4, <1>5, <1>6
<1> QED BY <1>2, <1>7 DEF h, h2

(* What Evicted does to the accounts.                                      *)
LEMMA EvictedAccounts ==
  ASSUME NEW n \in Nat, NEW devs \in [1..n -> Account], NEW fd,
         fd \in DOMAIN table => table[fd].dev \in 0..n
  PROVE  /\ Evicted(devs, fd) \in [1..n -> Account]
         /\ \A d \in 1..n :
              Evicted(devs, fd)[d] =
                IF fd \in DOMAIN table /\ table[fd].dev = d
                  THEN [devs[d] EXCEPT !.dropped = @ + 1] ELSE devs[d]
<1>1. CASE fd \in DOMAIN table /\ table[fd].dev # 0
  <2> DEFINE k == table[fd].dev
             new == [devs[k] EXCEPT !.dropped = @ + 1]
  <2>1. k \in 1..n /\ Evicted(devs, fd) = [devs EXCEPT ![k] = new]
    BY <1>1 DEF Evicted
  <2>2. devs[k] \in Account
    BY <2>1
  <2>3. new \in Account
    BY <2>2 DEF Account
  <2>4. fd \in DOMAIN table
    BY <1>1
  <2>5. \A d \in 1..n : k = d => new = [devs[d] EXCEPT !.dropped = @ + 1]
    OBVIOUS
  <2> HIDE DEF new
  <2> QED BY <2>1, <2>3, <2>4, <2>5
<1>2. CASE ~(fd \in DOMAIN table /\ table[fd].dev # 0)
  BY <1>2 DEF Evicted
<1> QED BY <1>1, <1>2

LEMMA MadeAccounts ==
  ASSUME NEW n \in Nat, NEW devs \in [1..n -> Account], NEW e, e.dev \in 0..n
  PROVE  /\ Made(devs, e) \in [1..n -> Account]
         /\ \A d \in 1..n : Made(devs, e)[d] =
              IF e.dev = d THEN [devs[d] EXCEPT !.made = @ + 1] ELSE devs[d]
<1>1. CASE e.dev # 0
  <2> DEFINE new == [devs[e.dev] EXCEPT !.made = @ + 1]
  <2>1. e.dev \in 1..n /\ Made(devs, e) = [devs EXCEPT ![e.dev] = new]
    BY <1>1 DEF Made
  <2>2. devs[e.dev] \in Account
    BY <2>1
  <2>3. new \in Account
    BY <2>2 DEF Account
  <2>5. \A d \in 1..n : e.dev = d => new = [devs[d] EXCEPT !.made = @ + 1]
    OBVIOUS
  <2> HIDE DEF new
  <2> QED BY <2>1, <2>3, <2>5
<1>2. CASE e.dev = 0
  BY <1>2 DEF Made
<1> QED BY <1>1, <1>2

(* open of a file, dup and dup3: one descriptor made, one pushed out.      *)
LEMMA PutNode ==
  ASSUME NEW v, NEW devs, SoundDevices(table, v, devs), NEW fd, NEW e, Behind(e, v, devs)
  PROVE  SoundDevices(At(table, fd, e), v, Evicted(Made(devs, e), fd))
<1>1. PICK n \in Nat : devs \in [1..n -> Account]
  BY DEF SoundDevices
<1> DEFINE d1 == Made(devs, e)
           d2 == Evicted(d1, fd)
           t2 == At(table, fd, e)
<1>0. DOMAIN devs \cup {0} = 0..n
  BY <1>1
<1>2. e.dev \in 0..n /\ \A x \in DOMAIN table : table[x].dev \in 0..n
  BY <1>0 DEF SoundDevices, Behind
<1>3. /\ d1 \in [1..n -> Account]
      /\ \A d \in 1..n : d1[d] = IF e.dev = d THEN [devs[d] EXCEPT !.made = @ + 1] ELSE devs[d]
  BY <1>1, <1>2, MadeAccounts
<1> HIDE DEF d1
<1>4. /\ d2 \in [1..n -> Account]
      /\ \A d \in 1..n : d2[d] = IF fd \in DOMAIN table /\ table[fd].dev = d
                                   THEN [d1[d] EXCEPT !.dropped = @ + 1] ELSE d1[d]
  BY <1>2, <1>3, EvictedAccounts
<1> HIDE DEF d2
<1>5. ASSUME NEW d \in 1..n
      PROVE  /\ d2[d].node = devs[d].node /\ d2[d].closed = devs[d].closed
             /\ d2[d].made = devs[d].made + (IF e.dev = d THEN 1 ELSE 0)
             /\ d2[d].dropped = devs[d].dropped
                  + (IF fd \in DOMAIN table /\ table[fd].dev = d THEN 1 ELSE 0)
             /\ devs[d] \in Account
  <2>1. devs[d] \in Account /\ d1[d] \in Account
    BY <1>1, <1>3
  <2>2. /\ d1[d].node = devs[d].node /\ d1[d].closed = devs[d].closed
        /\ d1[d].made = devs[d].made + (IF e.dev = d THEN 1 ELSE 0)
        /\ d1[d].dropped = devs[d].dropped
    BY <1>3, <2>1 DEF Account
  <2> QED BY <1>4, <2>1, <2>2 DEF Account
<1>6. DOMAIN devs = 1..n /\ DOMAIN d2 = 1..n
  BY <1>1, <1>4
<1>7. ASSUME NEW d \in 1..n PROVE Balanced(t2, d2, d)
  <2>1. Balanced(table, devs, d)
    BY <1>6 DEF SoundDevices
  <2>2. /\ Cardinality(Holders(table, d)) \in Nat
        /\ Cardinality(Holders(t2, d)) =
              (IF fd \in DOMAIN table /\ table[fd].dev = d
                 THEN Cardinality(Holders(table, d)) - 1
                 ELSE Cardinality(Holders(table, d)))
                + (IF e.dev = d THEN 1 ELSE 0)
    BY HoldersPut DEF SoundDevices
  <2> QED BY <1>5, <2>1, <2>2 DEF Balanced, Account
<1>8. ASSUME NEW x \in DOMAIN t2 PROVE Behind(t2[x], v, d2)
  <2>1. Behind(t2[x], v, devs)
    BY <1>8 DEF At, SoundDevices
  <2> HIDE DEF t2
  <2> QED BY <1>5, <1>6, <2>1 DEF Behind
<1>9. IsFiniteSet(DOMAIN t2)
  <2>1. DOMAIN t2 = DOMAIN table \cup {fd}
    BY DEF At
  <2> QED BY <2>1, FS_AddElement DEF SoundDevices
<1>10. SoundDevices(t2, v, d2)
  <2> HIDE DEF t2
  <2> QED BY <1>4, <1>6, <1>7, <1>8, <1>9 DEF SoundDevices
<1> QED BY <1>10 DEF d2, d1

(* openat of a device: a new instance, one descriptor made for it.         *)
LEMMA NewNode ==
  ASSUME NEW v, NEW devs, SoundDevices(table, v, devs), NEW fd, NEW e, NEW node \in Nat,
         e.kind = "Device", e.dev = Cardinality(DOMAIN devs) + 1,
         e.path \in DOMAIN v, v[e.path] = [type |-> "Device", node |-> node]
  PROVE  SoundDevices(At(table, fd, e), v,
           At(Evicted(devs, fd), e.dev, [node |-> node, made |-> 1, closed |-> 0, dropped |-> 0]))
<1>1. PICK n \in Nat : devs \in [1..n -> Account]
  BY DEF SoundDevices
<1> DEFINE new == [node |-> node, made |-> 1, closed |-> 0, dropped |-> 0]
           d1 == Evicted(devs, fd)
           d2 == At(d1, e.dev, new)
           t2 == At(table, fd, e)
<1>2. DOMAIN devs = 1..n /\ DOMAIN devs \cup {0} = 0..n
  BY <1>1
<1>3. e.dev = n + 1
  <2>1. 1 \in Int /\ n \in Int
    OBVIOUS
  <2>2. Cardinality(1..n) = IF 1 > n THEN 0 ELSE n - 1 + 1
    BY <2>1, FS_Interval
  <2>3. (IF 1 > n THEN 0 ELSE n - 1 + 1) = n
    OBVIOUS
  <2> QED BY <1>2, <2>2, <2>3
<1>4. \A x \in DOMAIN table : table[x].dev \in 0..n
  BY <1>2 DEF SoundDevices, Behind
<1>5. /\ d1 \in [1..n -> Account]
      /\ \A d \in 1..n : d1[d] = IF fd \in DOMAIN table /\ table[fd].dev = d
                                   THEN [devs[d] EXCEPT !.dropped = @ + 1] ELSE devs[d]
  BY <1>1, <1>4, EvictedAccounts
<1>6. new \in Account
  BY DEF Account
<1> HIDE DEF d1, new
<1>7. /\ d2 \in [1..(n + 1) -> Account] /\ d2[n + 1] = new
      /\ \A d \in 1..n : d2[d] = d1[d]
  BY <1>3, <1>5, <1>6 DEF At
<1> HIDE DEF d2
<1>8. ASSUME NEW d \in 1..n
      PROVE  /\ d2[d].node = devs[d].node /\ d2[d].closed = devs[d].closed
             /\ d2[d].made = devs[d].made
             /\ d2[d].dropped = devs[d].dropped
                  + (IF fd \in DOMAIN table /\ table[fd].dev = d THEN 1 ELSE 0)
             /\ devs[d] \in Account
  <2>1. devs[d] \in Account
    BY <1>1
  <2>2. d2[d] = IF fd \in DOMAIN table /\ table[fd].dev = d
                  THEN [devs[d] EXCEPT !.dropped = @ + 1] ELSE devs[d]
    BY <1>5, <1>7
  <2> QED BY <2>1, <2>2 DEF Account
<1>9. ASSUME NEW d
      PROVE  /\ Cardinality(Holders(table, d)) \in Nat
             /\ Cardinality(Holders(t2, d)) =
                  (IF fd \in DOMAIN table /\ table[fd].dev = d
                     THEN Cardinality(Holders(table, d)) - 1
                     ELSE Cardinality(Holders(table, d)))
                    + (IF e.dev = d THEN 1 ELSE 0)
  BY HoldersPut DEF SoundDevices
<1>10. ASSUME NEW d \in 1..n PROVE Balanced(t2, d2, d)
  <2>1. Balanced(table, devs, d)
    BY <1>2 DEF SoundDevices
  <2>2. e.dev # d
    BY <1>3
  <2> QED BY <1>8, <1>9, <2>1, <2>2 DEF Balanced, Account
<1>11. Balanced(t2, d2, n + 1)
  <2>1. Holders(table, n + 1) = {}
    BY <1>4 DEF Holders
  <2>2. Cardinality(Holders(table, n + 1)) = 0
    BY <2>1, FS_EmptySet
  <2>3. ~(fd \in DOMAIN table /\ table[fd].dev = n + 1)
    BY <1>4
  <2>4. Cardinality(Holders(t2, n + 1)) = 1
    BY <1>3, <1>9, <2>2, <2>3
  <2> QED BY <1>7, <2>4 DEF Balanced, new
<1>12. ASSUME NEW x \in DOMAIN t2 PROVE Behind(t2[x], v, d2)
  <2>1. CASE x = fd
    <3>1. t2[x] = e
      BY <2>1 DEF At
    <3>2. e.dev \in DOMAIN d2 /\ e.dev # 0 /\ d2[e.dev].node = node
      BY <1>3, <1>7 DEF new
    <3> QED BY <3>1, <3>2 DEF Behind
  <2>2. CASE x # fd
    <3>1. x \in DOMAIN table /\ t2[x] = table[x]
      BY <1>12, <2>2 DEF At
    <3>2. Behind(table[x], v, devs)
      BY <3>1 DEF SoundDevices
    <3>3. DOMAIN d2 = 1..(n + 1) /\ DOMAIN devs = 1..n
      BY <1>1, <1>7
    <3>4. table[x].dev \in DOMAIN d2 \cup {0}
      BY <1>4, <3>1, <3>3
    <3>5. table[x].kind = "Device" => d2[table[x].dev].node = devs[table[x].dev].node
      BY <1>4, <1>8, <3>1, <3>2 DEF Behind
    <3> QED BY <3>1, <3>2, <3>4, <3>5 DEF Behind
  <2> QED BY <2>1, <2>2
<1>13. IsFiniteSet(DOMAIN t2)
  <2>1. DOMAIN t2 = DOMAIN table \cup {fd}
    BY DEF At
  <2> QED BY <2>1, FS_AddElement DEF SoundDevices
<1>14. SoundDevices(t2, v, d2)
  <2>1. n + 1 \in Nat /\ DOMAIN d2 = 1..(n + 1)
    BY <1>7
  <2>2. ASSUME NEW d \in DOMAIN d2 PROVE Balanced(t2, d2, d)
    BY <1>10, <1>11, <2>1, <2>2
  <2> HIDE DEF t2
  <2> QED BY <1>7, <1>12, <1>13, <2>1, <2>2 DEF SoundDevices
<1> QED BY <1>14 DEF d2, d1, new

(* Moving a cursor or a length tells nothing apart.                        *)
LEMMA SameNode ==
  ASSUME NEW t, NEW v, NEW devs, SoundDevices(t, v, devs), NEW t2, DOMAIN t2 = DOMAIN t,
         \A x \in DOMAIN t : /\ t2[x].dev = t[x].dev /\ t2[x].kind = t[x].kind
                             /\ t2[x].path = t[x].path /\ t2[x].source = t[x].source
  PROVE  SoundDevices(t2, v, devs)
<1>1. ASSUME NEW x \in DOMAIN t PROVE Behind(t2[x], v, devs)
  BY DEF SoundDevices, Behind
<1>2. \A d : Holders(t2, d) = Holders(t, d)
  BY DEF Holders
<1> QED BY <1>1, <1>2 DEF SoundDevices, Balanced

(* A path mounted for the first time hides no node an entry is for.        *)
LEMMA Mounted ==
  ASSUME NEW t, NEW v, NEW devs, SoundDevices(t, v, devs), NEW v2,
         \A p \in DOMAIN v : p \in DOMAIN v2 /\ v2[p] = v[p]
  PROVE  SoundDevices(t, v2, devs)
BY DEF SoundDevices, Behind

(* Every step of the table keeps NInv.                                     *)
LEMMA OpenFileNodes ==
  ASSUME IInv, NInv, NEW path \in Paths, OpenFile(path) PROVE NInv'
<1>1. PICK source \in Sources : /\ source.name = vfs[path].node
                                /\ Allocate(FileEntry(nextFd, path, source))
  BY DEF OpenFile
<1> DEFINE e == FileEntry(nextFd, path, source)
<1>2. /\ table' = At(table, nextFd, e) /\ nextFd <= MaxFd /\ nextFd' = nextFd + 1
      /\ devices' = Evicted(devices, nextFd) /\ UNCHANGED <<vfs, factories, stdout>>
  BY <1>1 DEF Allocate, OpenFile
<1>3. e.dev = 0 /\ e.kind = "File" /\ e.path = path /\ e.source = source.name
  BY DEF FileEntry, Entry
<1>4. Behind(e, vfs, devices)
  <2>1. path \in DOMAIN vfs /\ vfs[path].type = "File"
    BY DEF OpenFile
  <2>2. vfs[path] = [type |-> "File", node |-> source.name]
    BY <1>1, <2>1 DEF NInv, Mounts
  <2> HIDE DEF e
  <2> QED BY <1>3, <2>1, <2>2 DEF Behind
<1>5. Made(devices, e) = devices
  BY <1>3 DEF Made
<1> HIDE DEF e
<1>6. SoundDevices(At(table, nextFd, e), vfs, Evicted(devices, nextFd))
  BY <1>4, <1>5, PutNode DEF NInv
<1>7. table' = [x \in DOMAIN table' |-> table'[x]]
  BY <1>2 DEF At
<1>8. nextFd' \in 3..(MaxFd + 1)
  BY <1>2, FdTableAssumption DEF NInv
<1> QED BY <1>2, <1>6, <1>7, <1>8 DEF NInv

LEMMA OpenDeviceNodes ==
  ASSUME IInv, NInv, NEW path \in Paths, OpenDevice(path) PROVE NInv'
<1> DEFINE dev == Cardinality(DOMAIN devices) + 1
           e == DeviceEntry(nextFd, path, dev)
           new == [node |-> vfs[path].node, made |-> 1, closed |-> 0, dropped |-> 0]
<1>1. /\ path \in DOMAIN vfs /\ vfs[path].type = "Device"
      /\ Allocate(e) /\ devices' = At(Evicted(devices, nextFd), dev, new)
  BY DEF OpenDevice
<1>2. /\ table' = At(table, nextFd, e) /\ nextFd <= MaxFd /\ nextFd' = nextFd + 1
      /\ UNCHANGED <<vfs, factories, stdout>>
  BY <1>1 DEF Allocate
<1>3. e.dev = dev /\ e.kind = "Device" /\ e.path = path
  BY DEF DeviceEntry, Entry
<1>4. vfs[path].node \in Nat /\ vfs[path] = [type |-> "Device", node |-> vfs[path].node]
  BY <1>1 DEF NInv, Mounts
<1> HIDE DEF e
<1>5. SoundDevices(At(table, nextFd, e), vfs, At(Evicted(devices, nextFd), dev, new))
  BY <1>1, <1>3, <1>4, NewNode DEF NInv
<1>6. table' = [x \in DOMAIN table' |-> table'[x]]
  BY <1>2 DEF At
<1>7. nextFd' \in 3..(MaxFd + 1)
  BY <1>2, FdTableAssumption DEF NInv
<1> HIDE DEF new, dev
<1> QED BY <1>1, <1>2, <1>5, <1>6, <1>7 DEF NInv

(* A copy is for what the original is for.                                 *)
LEMMA CopyBehind ==
  ASSUME NEW e, NEW h, EntryOK(e, h), NEW v, NEW devs, Behind(e, v, devs), NEW fd \in Int
  PROVE  Behind(CopyTo(e, fd), v, devs) /\ Made(devs, CopyTo(e, fd)) = Made(devs, e)
<1>1. LET c == CopyTo(e, fd)
      IN  c.dev = e.dev /\ c.kind = e.kind /\ c.path = e.path /\ c.source = e.source
  BY DEF EntryOK, Entries, CopyTo
<1> QED BY <1>1 DEF Behind, Made

LEMMA CopyNodes ==
  ASSUME IInv, NInv, NEW fd \in DOMAIN table, NEW to \in Int,
         table' = At(table, to, CopyTo(table[fd], to)),
         devices' = Evicted(Made(devices, table[fd]), to),
         UNCHANGED <<vfs, factories, stdout>>, nextFd' \in 3..(MaxFd + 1)
  PROVE  NInv'
<1>1. EntryOK(table[fd], hostLen)
  BY DEF IInv, Sound, SlotOK
<1>2. Behind(table[fd], vfs, devices)
  BY DEF NInv, SoundDevices
<1> DEFINE c == CopyTo(table[fd], to)
<1>3. Behind(c, vfs, devices) /\ Made(devices, c) = Made(devices, table[fd])
  BY <1>1, <1>2, CopyBehind
<1> HIDE DEF c
<1>4. SoundDevices(At(table, to, c), vfs, Evicted(Made(devices, c), to))
  BY <1>3, PutNode DEF NInv
<1>5. SoundDevices(table', vfs', devices')
  BY <1>3, <1>4 DEF c
<1>6. table' = [x \in DOMAIN table' |-> table'[x]]
  BY DEF At
<1> QED BY <1>5, <1>6 DEF NInv

LEMMA CloseNodes ==
  ASSUME IInv, NInv, NEW fd \in Fds, Close(fd) PROVE NInv'
<1>1. CASE fd \in Streams \/ fd \notin DOMAIN table
  BY <1>1 DEF Close, Refused, kernel, history, NInv
<1>2. CASE fd \notin Streams /\ fd \in DOMAIN table
  <2>1. /\ table' = Restrict(table, DOMAIN table \ {fd})
        /\ devices' = ClosedDevices(table[fd])
        /\ UNCHANGED <<vfs, factories, nextFd, stdout>>
    BY <1>2 DEF Close
  <2> DEFINE k == table[fd].dev
             t2 == Restrict(table, DOMAIN table \ {fd})
             d2 == ClosedDevices(table[fd])
  <2>2. /\ DOMAIN t2 = DOMAIN table \ {fd} /\ t2 = [x \in DOMAIN t2 |-> t2[x]]
        /\ \A x \in DOMAIN t2 : t2[x] = table[x]
    BY DEF Restrict
  <2> HIDE DEF t2
  <2>3. PICK n \in Nat : devices \in [1..n -> Account]
    BY DEF NInv, SoundDevices
  <2>4. DOMAIN devices = 1..n /\ DOMAIN devices \cup {0} = 0..n
    BY <2>3
  <2>5. k \in 0..n
    BY <1>2, <2>4 DEF NInv, SoundDevices, Behind
  <2>6. /\ d2 \in [1..n -> Account]
        /\ \A d \in 1..n : d2[d] = IF k = d THEN [devices[d] EXCEPT !.closed = @ + 1]
                                            ELSE devices[d]
    <3>1. CASE k # 0
      <4> DEFINE new == [devices[k] EXCEPT !.closed = @ + 1]
      <4>1. k \in 1..n /\ d2 = [devices EXCEPT ![k] = new]
        BY <2>5, <3>1 DEF ClosedDevices
      <4>2. devices[k] \in Account
        BY <2>3, <4>1
      <4>3. new \in Account
        BY <4>2 DEF Account
      <4>4. \A d \in 1..n : k = d => new = [devices[d] EXCEPT !.closed = @ + 1]
        OBVIOUS
      <4> HIDE DEF new, k, d2
      <4> QED BY <2>3, <4>1, <4>3, <4>4
    <3>2. CASE k = 0
      BY <2>3, <3>2 DEF ClosedDevices
    <3> QED BY <3>1, <3>2
  <2> HIDE DEF d2
  <2>7. ASSUME NEW d \in 1..n
        PROVE  /\ d2[d].node = devices[d].node /\ d2[d].made = devices[d].made
               /\ d2[d].closed = devices[d].closed + (IF k = d THEN 1 ELSE 0)
               /\ d2[d].dropped = devices[d].dropped /\ devices[d] \in Account
    <3>1. devices[d] \in Account
      BY <2>3
    <3>2. d2[d] = IF k = d THEN [devices[d] EXCEPT !.closed = @ + 1] ELSE devices[d]
      BY <2>6
    <3> HIDE DEF k
    <3> QED BY <3>1, <3>2 DEF Account
  <2>8. DOMAIN d2 = 1..n
    BY <2>6
  <2>9. ASSUME NEW d \in 1..n PROVE Balanced(t2, d2, d)
    <3>1. Balanced(table, devices, d)
      BY <2>4 DEF NInv, SoundDevices
    <3>2. IsFiniteSet(Holders(table, d))
      BY FS_Subset DEF Holders, NInv, SoundDevices
    <3>3. Holders(t2, d) = Holders(table, d) \ {fd} /\ (fd \in Holders(table, d) <=> k = d)
      BY <1>2, <2>2 DEF Holders
    <3>4. Cardinality(Holders(t2, d)) = IF k = d THEN Cardinality(Holders(table, d)) - 1
                                                 ELSE Cardinality(Holders(table, d))
      BY <3>2, <3>3, FS_RemoveElement
    <3>5. Cardinality(Holders(table, d)) \in Nat
      BY <3>2, FS_CardinalityType
    <3> HIDE DEF k
    <3> QED BY <2>7, <3>1, <3>4, <3>5 DEF Balanced, Account
  <2>10. ASSUME NEW x \in DOMAIN t2 PROVE Behind(t2[x], vfs, d2)
    <3>1. Behind(t2[x], vfs, devices)
      BY <2>2, <2>10 DEF NInv, SoundDevices
    <3> QED BY <2>4, <2>7, <2>8, <3>1 DEF Behind
  <2>11. IsFiniteSet(DOMAIN t2)
    <3>1. IsFiniteSet(DOMAIN table)
      BY DEF NInv, SoundDevices
    <3> QED BY <2>2, <3>1, FS_RemoveElement
  <2>12. SoundDevices(t2, vfs, d2)
    BY <2>6, <2>8, <2>9, <2>10, <2>11 DEF SoundDevices
  <2>13. SoundDevices(table', vfs', devices')
    BY <2>1, <2>12 DEF t2, d2
  <2>14. table' = [x \in DOMAIN table' |-> table'[x]]
    BY <2>1, <2>2 DEF t2
  <2> QED BY <2>1, <2>13, <2>14 DEF NInv
<1> QED BY <1>1, <1>2

LEMMA MountNodes ==
  ASSUME IInv, NInv, NEW path \in Paths,
         MountDevice(path) \/ \E source \in Sources : MountFile(path, source)
  PROVE  NInv'
<1>0. /\ SoundDevices(table, vfs, devices) /\ Mounts(vfs) /\ factories \in Nat
      /\ UNCHANGED <<table, nextFd, stdout, devices>>
  BY DEF MountDevice, MountFile, Refused, kernel, history, NInv
<1>1. CASE vfs' = vfs
  <2>1. CASE MountDevice(path)
    BY <1>0, <1>1, <2>1 DEF MountDevice, NInv
  <2>2. ASSUME NEW source \in Sources, MountFile(path, source) PROVE NInv'
    <3>1. factories' = factories
      BY <2>2 DEF MountFile, Refused, kernel
    <3> QED BY <1>0, <1>1, <3>1 DEF NInv
  <2> QED BY <2>1, <2>2
<1>2. CASE vfs' # vfs
  <2>1. PICK node : /\ path \notin DOMAIN vfs /\ factories' \in Nat
                    /\ \/ vfs' = At(vfs, path, [type |-> "File", node |-> node])
                       \/ node \in Nat /\ vfs' = At(vfs, path, [type |-> "Device", node |-> node])
    <3>1. CASE MountDevice(path)
      BY <1>0, <1>2, <3>1 DEF MountDevice
    <3>2. ASSUME NEW source \in Sources, MountFile(path, source)
          PROVE  \E node : /\ path \notin DOMAIN vfs /\ factories' \in Nat
                           /\ vfs' = At(vfs, path, [type |-> "File", node |-> node])
      <4>1. path \notin DOMAIN vfs
        BY <1>2, <3>2 DEF MountFile, Refused, kernel
      <4> QED BY <1>0, <3>2, <4>1 DEF MountFile
    <3> QED BY <3>1, <3>2
  <2>2. \A p \in DOMAIN vfs : p \in DOMAIN vfs' /\ vfs'[p] = vfs[p]
    BY <2>1 DEF At
  <2>3. SoundDevices(table, vfs', devices)
    BY <1>0, <2>2, Mounted
  <2>4. Mounts(vfs')
    <3>1. CASE vfs' = At(vfs, path, [type |-> "File", node |-> node])
      BY <1>0, <3>1 DEF Mounts, At
    <3>2. CASE node \in Nat /\ vfs' = At(vfs, path, [type |-> "Device", node |-> node])
      BY <1>0, <3>2 DEF Mounts, At
    <3> QED BY <2>1, <3>1, <3>2
  <2> QED BY <1>0, <2>1, <2>3, <2>4 DEF NInv
<1> QED BY <1>1, <1>2

(* read and write change cursors and lengths only.                         *)
LEMMA MoveNodes ==
  ASSUME IInv, NInv, NEW fd \in DOMAIN table, NEW cursor, NEW len,
         table' = [table EXCEPT ![fd] = [@ EXCEPT !.cursor = cursor, !.len = len]],
         UNCHANGED <<vfs, factories, nextFd, devices>>, stdout' \in Nat
  PROVE  NInv'
<1>1. table[fd] \in Entries
  BY DEF IInv, Sound, SlotOK, EntryOK
<1>2. DOMAIN table' = DOMAIN table /\ table' = [x \in DOMAIN table' |-> table'[x]]
  OBVIOUS
<1>3. ASSUME NEW x \in DOMAIN table
      PROVE  /\ table'[x].dev = table[x].dev /\ table'[x].kind = table[x].kind
             /\ table'[x].path = table[x].path /\ table'[x].source = table[x].source
  <2>1. CASE x = fd
    <3>1. table'[x] = [table[fd] EXCEPT !.cursor = cursor, !.len = len]
      BY <2>1
    <3> QED BY <1>1, <2>1, <3>1 DEF Entries
  <2>2. CASE x # fd
    BY <2>2
  <2> QED BY <2>1, <2>2
<1>4. SoundDevices(table', vfs, devices)
  BY <1>2, <1>3, SameNode DEF NInv
<1> QED BY <1>2, <1>4 DEF NInv

LEMMA ReadNodes ==
  ASSUME IInv, NInv, NEW fd \in Fds, NEW n \in Counts, Read(fd, n) PROVE NInv'
<1>1. CASE UNCHANGED <<kernel, history>>
  BY <1>1 DEF kernel, history, NInv
<1>2. CASE ~UNCHANGED <<kernel, history>>
  <2>1. fd \in DOMAIN table /\ ReadFile(fd, n)
    BY <1>2 DEF Read, Refused, DeviceAnswers
  <2>2. PICK got \in Got(table[fd], n) :
          /\ table' = [table EXCEPT ![fd].cursor = @ + got]
          /\ UNCHANGED <<vfs, factories, nextFd, hostLen, stdout, history>>
    BY <1>2, <2>1 DEF ReadFile, Refused
  <2>3. table[fd] \in Entries
    BY <2>1 DEF IInv, Sound, SlotOK, EntryOK
  <2> DEFINE c == table[fd].cursor + got
  <2>4. [table[fd] EXCEPT !.cursor = c] = [table[fd] EXCEPT !.cursor = c, !.len = table[fd].len]
    BY <2>3 DEF Entries
  <2>5. table' = [table EXCEPT ![fd] = [@ EXCEPT !.cursor = c, !.len = table[fd].len]]
    BY <2>2, <2>4
  <2>6. stdout' \in Nat /\ UNCHANGED <<vfs, factories, nextFd, devices>>
    BY <2>2 DEF history, NInv
  <2> QED BY <2>1, <2>5, <2>6, MoveNodes
<1> QED BY <1>1, <1>2

(* A write that changes anything goes to stdout or to a file.              *)
LEMMA WriteCases ==
  ASSUME IInv, NEW fd \in Fds, NEW n \in Counts, Write(fd, n)
  PROVE  \/ UNCHANGED <<kernel, history>> \/ WriteStdout(fd, n)
         \/ fd \in DOMAIN table /\ (WriteBytes(fd, n) \/ WriteHost(fd, n))
<1>1. CASE fd \in DOMAIN table /\ table[fd].kind = "File" /\ WriteFile(fd, n)
  <2>1. table[fd].from \in {"Bytes", "Host", "Dynamic"}
    BY <1>1 DEF IInv, Sound, SlotOK, EntryOK, Entries
  <2> QED BY <1>1, <2>1 DEF WriteFile, Refused
<1>2. fd \in DOMAIN table => table[fd].kind \in {"Stdin", "Stdout", "Stderr", "File", "Device"}
  BY DEF IInv, Sound, SlotOK, EntryOK, Entries
<1> QED BY <1>1, <1>2 DEF Write, Refused, DeviceAnswers

LEMMA WriteNodes ==
  ASSUME IInv, NInv, NEW fd \in Fds, NEW n \in Counts, Write(fd, n) PROVE NInv'
<1>1. CASE UNCHANGED <<kernel, history>>
  BY <1>1 DEF kernel, history, NInv
<1>2. CASE WriteStdout(fd, n)
  <2>1. stdout' \in Nat
    BY <1>2, FdTableAssumption DEF WriteStdout, NInv
  <2> QED BY <1>2, <2>1 DEF WriteStdout, history, NInv
<1>3. ASSUME fd \in DOMAIN table, WriteBytes(fd, n) PROVE NInv'
  <2> DEFINE end == table[fd].cursor + n
             len == Longer(table[fd].len, end)
  <2>1. /\ table' = [table EXCEPT ![fd] = [@ EXCEPT !.cursor = end, !.len = len]]
        /\ UNCHANGED <<vfs, factories, nextFd, stdout, history>>
    BY <1>3 DEF WriteBytes
  <2> HIDE DEF end, len
  <2> QED BY <1>3, <2>1, MoveNodes DEF history, NInv
<1>4. ASSUME fd \in DOMAIN table, WriteHost(fd, n) PROVE NInv'
  <2> DEFINE end == table[fd].cursor + n
  <2>1. PICK k : table' = [table EXCEPT ![fd] = Moved(table[fd], end, k)]
    BY <1>4 DEF WriteHost
  <2>2. UNCHANGED <<vfs, factories, nextFd, stdout, history>>
    BY <1>4 DEF WriteHost
  <2>3. table[fd] \in Entries
    BY <1>4 DEF IInv, Sound, SlotOK, EntryOK
  <2> HIDE DEF end
  <2>4. \E c : Moved(table[fd], end, k) = [table[fd] EXCEPT !.cursor = c, !.len = table[fd].len]
    <3>1. CASE k = end
      <4>1. Moved(table[fd], end, k) = [table[fd] EXCEPT !.cursor = end, !.len = table[fd].len]
        BY <2>3, <3>1 DEF Moved, Entries
      <4> QED BY <4>1
    <3>2. CASE k # end
      <4>1. Moved(table[fd], end, k) = [table[fd] EXCEPT !.cursor = table[fd].cursor, !.len = table[fd].len]
        BY <2>3, <3>2 DEF Moved, Entries
      <4> QED BY <4>1
    <3> QED BY <3>1, <3>2
  <2>5. PICK c : Moved(table[fd], end, k) = [table[fd] EXCEPT !.cursor = c, !.len = table[fd].len]
    BY <2>4
  <2>6. table' = [table EXCEPT ![fd] = [@ EXCEPT !.cursor = c, !.len = table[fd].len]]
    BY <2>1, <2>5
  <2> QED BY <1>4, <2>2, <2>6, MoveNodes DEF history, NInv
<1> QED BY <1>1, <1>2, <1>3, <1>4, WriteCases

LEMMA StepNodes == IInv /\ NInv /\ [Next]_vars => NInv'
<1> SUFFICES ASSUME IInv, NInv, [Next]_vars PROVE NInv'
  OBVIOUS
<1>1. CASE UNCHANGED vars
  BY <1>1 DEF vars, kernel, history, NInv
<1>2. ASSUME NEW path \in Paths, OpenFails(path) PROVE NInv'
  BY <1>2 DEF OpenFails, Refused, kernel, history, NInv
<1>3. ASSUME NEW fd \in Fds, Query(fd) PROVE NInv'
  BY <1>3 DEF Query, Refused, kernel, history, NInv
<1>4. ASSUME NEW fd \in Fds, Dup(fd) PROVE NInv'
  <2>1. CASE fd \notin DOMAIN table
    BY <1>4, <2>1 DEF Dup, Refused, kernel, history, NInv
  <2>2. CASE fd \in DOMAIN table
    <3>1. /\ nextFd <= MaxFd /\ nextFd' = nextFd + 1
          /\ table' = At(table, nextFd, CopyTo(table[fd], nextFd))
          /\ devices' = Evicted(Made(devices, table[fd]), nextFd)
          /\ UNCHANGED <<vfs, factories, stdout>>
      BY <1>4, <2>2 DEF Dup
    <3>2. nextFd \in Int /\ nextFd' \in 3..(MaxFd + 1)
      BY <3>1, FdTableAssumption DEF NInv
    <3> QED BY <2>2, <3>1, <3>2, CopyNodes
  <2> QED BY <2>1, <2>2
<1>5. ASSUME NEW fd \in Fds, NEW target \in Targets, Dup3(fd, target) PROVE NInv'
  <2>1. CASE fd \notin DOMAIN table \/ fd = target \/ target \in Streams
    BY <1>5, <2>1 DEF Dup3, Refused, kernel, history, NInv
  <2>2. CASE fd \in DOMAIN table /\ fd # target /\ target \notin Streams
    <3>1. /\ table' = At(table, target, CopyTo(table[fd], target))
          /\ devices' = Evicted(Made(devices, table[fd]), target)
          /\ UNCHANGED <<vfs, factories, stdout, nextFd>>
      BY <1>5, <2>2 DEF Dup3, Replace
    <3>2. target \in Int /\ nextFd' \in 3..(MaxFd + 1)
      BY <3>1, FdTableAssumption DEF NInv
    <3> QED BY <2>2, <3>1, <3>2, CopyNodes
  <2> QED BY <2>1, <2>2
<1> QED BY <1>1, <1>2, <1>3, <1>4, <1>5, MountNodes, OpenFileNodes, OpenDeviceNodes,
           CloseNodes, ReadNodes, WriteNodes DEF Next

LEMMA NodesInvariance == Spec => [](IInv /\ NInv)
<1>1. IInv /\ NInv /\ [Next]_vars => (IInv /\ NInv)'
  BY StepSound, StepNodes
<1> QED BY <1>1, InitSound, InitNodes, PTL DEF Spec

(***************************************************************************)
(* However descriptors are copied and replaced and paths mounted again,    *)
(* a descriptor reads and writes the node of its path, and has a device    *)
(* instance exactly when its kind says so.                                 *)
(***************************************************************************)
THEOREM NodesAlwaysSound == Spec => []NodesSound
<1>1. IInv /\ NInv => NodesSound
  <2> SUFFICES ASSUME IInv, NInv PROVE NodesSound
    OBVIOUS
  <2>1. /\ Streams \subseteq DOMAIN table /\ nextFd \in 3..(MaxFd + 1)
        /\ stdout \in Nat /\ factories \in Nat /\ hostLen \in [HostFiles -> Nat]
    BY DEF IInv, Sound, NInv
  <2>2. ASSUME NEW fd \in DOMAIN table
        PROVE  /\ table[fd].cursor \in Nat /\ table[fd].len \in Nat
               /\ Behind(table[fd], vfs, devices)
    BY DEF IInv, Sound, SlotOK, EntryOK, Entries, NInv, SoundDevices
  <2> QED BY <2>1, <2>2 DEF NodesSound, TypeOK, NodeBehindFd, Behind
<1> QED BY <1>1, NodesInvariance, PTL

(***************************************************************************)
(* Every descriptor ever made for a device is live, closed once, or was    *)
(* pushed out, for any number of devices and copies.                       *)
(***************************************************************************)
THEOREM DevicesBalance == Spec => []DeviceAccounts
<1>1. IInv /\ NInv => DeviceAccounts
  BY DEF NInv, SoundDevices, Balanced, Holders, DeviceAccounts
<1> QED BY <1>1, NodesInvariance, PTL

(***************************************************************************)
(* A failed write moves no cursor, whatever file and whatever part of the  *)
(* bytes a host file took.                                                 *)
(***************************************************************************)
THEOREM WritesRepeat == Spec => FailedWriteRepeats
<1> DEFINE Kept == last'.op = "write" /\ last'.status # "ok" => table' = table
<1>1. ASSUME IInv, NInv, NEW fd \in Fds, NEW n \in Counts, Write(fd, n) PROVE Kept
  <2>1. CASE UNCHANGED kernel
    BY <2>1 DEF kernel
  <2>2. CASE last'.status = "ok"
    BY <2>2
  <2>3. CASE WriteHost(fd, n)
    <3> DEFINE end == table[fd].cursor + n
    <3>1. PICK k : /\ table' = [table EXCEPT ![fd] = Moved(table[fd], end, k)]
                   /\ k = end => Answer("write", fd, "ok", n)
      BY <2>3 DEF WriteHost
    <3>2. CASE k = end
      BY <3>1, <3>2 DEF Answer
    <3>3. CASE k # end
      <4>1. table' = [table EXCEPT ![fd] = table[fd]]
        BY <3>1, <3>3 DEF Moved
      <4>2. table = [x \in DOMAIN table |-> table[x]]
        BY <1>1 DEF NInv
      <4>3. table' = table
        BY <4>1, <4>2
      <4> QED BY <4>3
    <3> QED BY <3>2, <3>3
  <2>4. UNCHANGED kernel \/ last'.status = "ok" \/ WriteHost(fd, n)
    <3>1. CASE WriteStdout(fd, n) \/ WriteBytes(fd, n)
      BY <3>1 DEF WriteStdout, WriteBytes, Answer
    <3> QED BY <1>1, <3>1, WriteCases
  <2> QED BY <2>1, <2>2, <2>3, <2>4
<1>2. IInv /\ NInv /\ [Next]_vars => (Kept \/ UNCHANGED vars)
  <2> SUFFICES ASSUME IInv, NInv, Next PROVE Kept
    OBVIOUS
  <2> DEFINE Other == last'.op # "write"
  <2>1. ASSUME NEW path \in Paths, NEW source \in Sources, MountFile(path, source) PROVE Other
    BY <2>1 DEF MountFile, Refused, Answer
  <2>2. ASSUME NEW path \in Paths, MountDevice(path) PROVE Other
    BY <2>2 DEF MountDevice, Answer
  <2>3. ASSUME NEW path \in Paths, OpenFails(path) \/ OpenFile(path) \/ OpenDevice(path) PROVE Other
    BY <2>3 DEF OpenFails, OpenFile, OpenDevice, Allocate, Refused, Answer
  <2>4. ASSUME NEW fd \in Fds, Close(fd) \/ Dup(fd) \/ Query(fd) PROVE Other
    BY <2>4 DEF Close, Dup, Query, Refused, Answer
  <2>5. ASSUME NEW fd \in Fds, NEW target \in Targets, Dup3(fd, target) PROVE Other
    BY <2>5 DEF Dup3, Replace, Refused, Answer
  <2>6. ASSUME NEW fd \in Fds, NEW n \in Counts, Read(fd, n) PROVE Other
    BY <2>6 DEF Read, ReadFile, DeviceAnswers, Refused, Answer
  <2> QED BY <1>1, <2>1, <2>2, <2>3, <2>4, <2>5, <2>6 DEF Next
<1>3. IInv /\ NInv /\ [Next]_vars => [Kept]_vars
  BY <1>2
<1> QED BY <1>3, NodesInvariance, PTL DEF Spec, FailedWriteRepeats
=============================================================================
