------------------------------ MODULE FdTable ------------------------------
(***************************************************************************)
(* The guest's file descriptors: FileDescriptorTable of os/linux/src/fd.rs *)
(* behind the kernel operations of kernel/fd_io.rs and the handlers of     *)
(* syscall.rs, with VfsMountTable and DeviceRegistry, which openat looks   *)
(* names up in.                                                            *)
(*                                                                         *)
(* File contents are abstracted to their length.  Where a length lives     *)
(* follows VirtFileSource: a Bytes file is a copy owned by the entry, a    *)
(* HostPath file is shared by every entry that names it and only this      *)
(* process writes it, a Dynamic file is a provider that cannot be written  *)
(* and whose content is decided anew on every read.                        *)
(* Descriptor flags are stored by the code and never read: left out.       *)
(***************************************************************************)
EXTENDS Integers, Sequences, FiniteSets, Functions

CONSTANTS
  Paths,      (* names the guest opens                                      *)
  Builtins,   (* the names of the built-in devices, in registration order   *)
  Sources,    (* files that can be mounted: [kind, len, name]; the length   *)
              (* of a Dynamic one means nothing                             *)
  Counts,     (* byte counts of read and write                              *)
  Targets,    (* new_fd arguments of dup3, any i32                          *)
  MaxFd,      (* bound: open and dup stop when next_fd passes it            *)
  MaxLen,     (* bound: neither a file nor stdout grows longer, and no more *)
              (* than that is read from a provider                          *)
  MaxMounts,  (* bound: device factories registered                         *)
  MaxMade     (* bound: descriptors ever made for one device                *)

ASSUME FdTableAssumption ==
  /\ \A s \in Sources : s.kind \in {"Bytes", "Host", "Dynamic"} /\ s.len \in Nat
  /\ \A s, t \in Sources : s.name = t.name => s = t
  /\ Builtins \in Seq(Paths) /\ Counts \subseteq Nat \ {0} /\ Targets \subseteq Int
  /\ MaxFd \in Nat /\ MaxFd >= 2 /\ MaxLen \in Nat /\ MaxMounts \in Nat /\ MaxMade \in Nat

VARIABLES
  vfs,        (* path -> node, a partial function                           *)
  factories,  (* DeviceRegistry: number of factories registered             *)
  table,      (* fd -> entry, a partial function                            *)
  nextFd,     (* FileDescriptorTable::next_fd                               *)
  hostLen,    (* length of each host file                                   *)
  stdout,     (* bytes collected in LinuxRuntime::stdout                    *)
  last,       (* [op, fd, status, n]: the last call and its answer          *)
  devices,    (* history: device instance -> [node, made, closed, dropped], *)
              (* the descriptors made for it, those closed, and those that  *)
              (* a later entry under the same number pushed out             *)
  placed      (* history: numbers dup3 has put an entry at                  *)

kernel == <<vfs, factories, table, nextFd, hostLen, stdout>>
history == <<devices, placed>>
vars == <<kernel, last, history>>

Streams == 0..2

StreamKind == [fd \in Streams |->
                 IF fd = 0 THEN "Stdin" ELSE IF fd = 1 THEN "Stdout" ELSE "Stderr"]

(* The sources that are host files, which all entries share.               *)
HostFiles == {s.name : s \in {t \in Sources : t.kind = "Host"}}

(***************************************************************************)
(* Entries.  `path` is virtual_path; `opened` is a history field: the      *)
(* number the first descriptor of this open got, inherited through dup.    *)
(***************************************************************************)
Entry(fd, kind, path, source, dev) ==
  [fd |-> fd, kind |-> kind, path |-> path, source |-> source.name,
   from |-> source.kind, len |-> source.len, cursor |-> 0, dev |-> dev,
   opened |-> fd]

NoSource == [kind |-> "Bytes", len |-> 0, name |-> "none"]

StreamEntry(fd) == Entry(fd, StreamKind[fd], "none", NoSource, 0)

FileEntry(fd, path, source) == Entry(fd, "File", path, source, 0)

DeviceEntry(fd, path, dev) == Entry(fd, "Device", path, NoSource, dev)

(* The length of a Bytes or a host file.                                   *)
Size(e) == IF e.from = "Host" THEN hostLen[e.source] ELSE e.len

At(f, x, v) == [y \in DOMAIN f \cup {x} |-> IF y = x THEN v ELSE f[y]]

(* The accounts when a copy of e is made, and when an entry is put at fd.  *)
Made(devs, e) == IF e.dev = 0 THEN devs ELSE [devs EXCEPT ![e.dev].made = @ + 1]

Evicted(devs, fd) ==
  IF fd \in DOMAIN table /\ table[fd].dev # 0
    THEN [devs EXCEPT ![table[fd].dev].dropped = @ + 1] ELSE devs

CanCopy(e) == e.dev # 0 => devices[e.dev].made < MaxMade

Answer(op, fd, status, n) ==
  last' = [op |-> op, fd |-> fd, status |-> status, n |-> n]

Refused(op, fd, status) == Answer(op, fd, status, 0) /\ UNCHANGED <<kernel, history>>

Init ==
  /\ vfs = [p \in Range(Builtins) |->
              [type |-> "Device", node |-> CHOOSE i \in DOMAIN Builtins : Builtins[i] = p]]
  /\ factories = Len(Builtins)
  /\ table = [fd \in Streams |-> StreamEntry(fd)] /\ nextFd = 3
  /\ hostLen = [f \in HostFiles |-> (CHOOSE s \in Sources : s.name = f).len]
  /\ stdout = 0 /\ last = [op |-> "boot", fd |-> 0, status |-> "ok", n |-> 0]
  /\ devices = [d \in {} |-> d] /\ placed = {}
-----------------------------------------------------------------------------
(* mount_file and mount_device: the first mount of a path stays.  A device *)
(* factory is registered before the path is known to be free.              *)
MountFile(path, source) ==
  IF path \in DOMAIN vfs
    THEN Refused("mount", 0, "AlreadyMounted")
    ELSE /\ vfs' = At(vfs, path, [type |-> "File", node |-> source.name])
         /\ Answer("mount", 0, "ok", 0)
         /\ UNCHANGED <<factories, table, nextFd, hostLen, stdout, history>>

(* mount_device that replaces the node (mutant).                           *)
MountDeviceReplaces(path) ==
  /\ factories < MaxMounts /\ factories' = factories + 1
  /\ vfs' = At(vfs, path, [type |-> "Device", node |-> factories + 1])
  /\ Answer("mount", 0, "ok", 0)
  /\ UNCHANGED <<table, nextFd, hostLen, stdout, history>>

MountDevice(path) ==
  /\ factories < MaxMounts /\ factories' = factories + 1
  /\ IF path \in DOMAIN vfs
       THEN UNCHANGED vfs /\ Answer("mount", 0, "AlreadyMounted", 0)
       ELSE /\ vfs' = At(vfs, path, [type |-> "Device", node |-> factories + 1])
            /\ Answer("mount", 0, "ok", 0)
  /\ UNCHANGED <<table, nextFd, hostLen, stdout, history>>

(***************************************************************************)
(* openat.  allocate takes next_fd and inserts without looking.  An        *)
(* unreadable path, an unknown one, and a device whose factory or open     *)
(* fails are answered before a descriptor is taken.                        *)
(***************************************************************************)
OpenFails(path) ==
  \/ Refused("open", 0, "EFAULT")
  \/ /\ path \in DOMAIN vfs => vfs[path].type = "Device"
     /\ Refused("open", 0, "ENOSYS")

Allocate(entry) ==
  /\ nextFd <= MaxFd /\ nextFd' = nextFd + 1
  /\ table' = At(table, nextFd, entry)
  /\ Answer("open", nextFd, "ok", 0)
  /\ UNCHANGED <<vfs, factories, hostLen, stdout, placed>>

OpenFile(path) ==
  /\ path \in DOMAIN vfs /\ vfs[path].type = "File"
  /\ \E source \in Sources :
       /\ source.name = vfs[path].node
       /\ Allocate(FileEntry(nextFd, path, source))
  /\ devices' = Evicted(devices, nextFd)

OpenDevice(path) ==
  /\ path \in DOMAIN vfs /\ vfs[path].type = "Device"
  /\ LET dev == Cardinality(DOMAIN devices) + 1
     IN  /\ Allocate(DeviceEntry(nextFd, path, dev))
         /\ devices' = At(Evicted(devices, nextFd), dev,
              [node |-> vfs[path].node, made |-> 1, closed |-> 0, dropped |-> 0])

(***************************************************************************)
(* close: streams are refused; a device is told, once for each descriptor, *)
(* before the entry goes.                                                  *)
(***************************************************************************)
ClosedDevices(e) ==
  IF e.dev = 0 THEN devices ELSE [devices EXCEPT ![e.dev].closed = @ + 1]

(* close that tells the device and leaves the entry (mutant).              *)
CloseKeepsEntry(fd) ==
  IF fd \in Streams \/ fd \notin DOMAIN table
    THEN Refused("close", fd, "EBADF")
    ELSE /\ devices' = ClosedDevices(table[fd])
         /\ Answer("close", fd, "ok", 0)
         /\ UNCHANGED <<kernel, placed>>

Close(fd) ==
  IF fd \in Streams \/ fd \notin DOMAIN table
    THEN Refused("close", fd, "EBADF")
    ELSE /\ devices' = ClosedDevices(table[fd])
         /\ table' = Restrict(table, DOMAIN table \ {fd})
         /\ Answer("close", fd, "ok", 0)
         /\ UNCHANGED <<vfs, factories, nextFd, hostLen, stdout, placed>>

(***************************************************************************)
(* dup and dup3.  A file's handle is copied, cursor and Bytes content      *)
(* included; a device's is shared.  dup3 replaces whatever is at the       *)
(* target, calls no device's close, and leaves next_fd alone.              *)
(***************************************************************************)
CopyTo(e, fd) == [e EXCEPT !.fd = fd]

Dup(fd) ==
  IF fd \notin DOMAIN table
    THEN Refused("dup", fd, "EBADF")
    ELSE /\ nextFd <= MaxFd /\ nextFd' = nextFd + 1 /\ CanCopy(table[fd])
         /\ table' = At(table, nextFd, CopyTo(table[fd], nextFd))
         /\ devices' = Evicted(Made(devices, table[fd]), nextFd)
         /\ Answer("dup", nextFd, "ok", 0)
         /\ UNCHANGED <<vfs, factories, hostLen, stdout, placed>>

Replace(fd, target) ==
  /\ CanCopy(table[fd])
  /\ table' = At(table, target, CopyTo(table[fd], target))
  /\ devices' = Evicted(Made(devices, table[fd]), target)
  /\ placed' = placed \cup {target}
  /\ Answer("dup3", target, "ok", 0)
  /\ UNCHANGED <<vfs, factories, nextFd, hostLen, stdout>>

Dup3(fd, target) ==
  IF fd \notin DOMAIN table THEN Refused("dup3", target, "EBADF")
  ELSE IF fd = target THEN Refused("dup3", target, "ok")
  ELSE IF target \in Streams THEN Refused("dup3", target, "EBADF")
  ELSE Replace(fd, target)
-----------------------------------------------------------------------------
(***************************************************************************)
(* read: the cursor advances by what was read before the bytes go to the   *)
(* guest, and stays advanced when that write fails.                        *)
(***************************************************************************)
(* read that trusts the requested length (mutant).                         *)
GotAll(e, n) == {n}

(* What file_read may get.  A provider is asked for its content at the     *)
(* cursor each time; it may be longer or shorter than the last time, and   *)
(* end before the cursor.                                                  *)
Got(e, n) ==
  IF e.from = "Dynamic" THEN {k \in 0..n : e.cursor + k <= MaxLen}
  ELSE IF Size(e) <= e.cursor THEN {0}
  ELSE IF n <= Size(e) - e.cursor THEN {n} ELSE {Size(e) - e.cursor}

ReadFile(fd, n) ==
  \/ \E got \in Got(table[fd], n) :
       /\ table' = [table EXCEPT ![fd].cursor = @ + got]
       /\ \/ Answer("read", fd, "ok", got)
          \/ got > 0 /\ Answer("read", fd, "EFAULT", 0)
       /\ UNCHANGED <<vfs, factories, nextFd, hostLen, stdout, history>>
  \/ table[fd].from \in {"Host", "Dynamic"} /\ Refused("read", fd, "EFAULT")

(* What a device answers: some of the bytes, or an error of its own.       *)
DeviceAnswers(op, fd, n) ==
  /\ \/ \E k \in {0, n} : Answer(op, fd, "ok", k)
     \/ \E status \in {"EFAULT", "ENOTTY"} : Answer(op, fd, status, 0)
  /\ UNCHANGED <<kernel, history>>

Read(fd, n) ==
  IF fd \notin DOMAIN table THEN Refused("read", fd, "EBADF")
  ELSE IF table[fd].kind = "File" THEN ReadFile(fd, n)
  ELSE IF table[fd].kind = "Device" THEN DeviceAnswers("read", fd, n)
  ELSE Refused("read", fd, "ok")

(* pread64, ioctl and fstat move nothing, whatever they answer.            *)
Query(fd) == Refused("query", fd, "any")

(***************************************************************************)
(* write: the guest buffer is read first; numbers 1 and 2 go to stdout     *)
(* whatever their entry; elsewhere a copy of a stream swallows the bytes.  *)
(* A host file may take part of the bytes before the write fails.          *)
(***************************************************************************)
Longer(a, b) == IF a < b THEN b ELSE a

WriteStdout(fd, n) ==
  /\ stdout + n <= MaxLen /\ stdout' = stdout + n
  /\ Answer("write", fd, "ok", n)
  /\ UNCHANGED <<vfs, factories, table, nextFd, hostLen, history>>

WriteBytes(fd, n) ==
  LET end == table[fd].cursor + n
  IN  /\ end <= MaxLen
      /\ table' = [table EXCEPT ![fd].cursor = end, ![fd].len = Longer(@, end)]
      /\ Answer("write", fd, "ok", n)
      /\ UNCHANGED <<vfs, factories, nextFd, hostLen, stdout, history>>

(* A failed host write that moves the cursor all the same (mutant).        *)
MovedOnFailure(e, end, k) == [e EXCEPT !.cursor = end]

Moved(e, end, k) == IF k = end THEN [e EXCEPT !.cursor = end] ELSE e

WriteHost(fd, n) ==
  LET e == table[fd]
      end == e.cursor + n
  IN  /\ end <= MaxLen
      /\ \E k \in e.cursor..end :
           /\ hostLen' = [hostLen EXCEPT ![e.source] = Longer(@, k)]
           /\ table' = [table EXCEPT ![fd] = Moved(e, end, k)]
           /\ IF k = end THEN Answer("write", fd, "ok", n) ELSE Answer("write", fd, "EFAULT", 0)
      /\ UNCHANGED <<vfs, factories, nextFd, stdout, history>>

WriteFile(fd, n) ==
  CASE table[fd].from = "Bytes" -> WriteBytes(fd, n)
    [] table[fd].from = "Host" -> WriteHost(fd, n)
    [] table[fd].from = "Dynamic" -> Refused("write", fd, "ENOTTY")

Write(fd, n) ==
  \/ Refused("write", fd, "EFAULT")
  \/ IF fd \in {1, 2} THEN WriteStdout(fd, n)
     ELSE IF fd \notin DOMAIN table THEN Refused("write", fd, "EBADF")
     ELSE CASE table[fd].kind = "File" -> WriteFile(fd, n)
            [] table[fd].kind = "Device" -> DeviceAnswers("write", fd, n)
            [] table[fd].kind = "Stdin" -> Refused("write", fd, "ok")
            [] OTHER -> Answer("write", fd, "ok", n) /\ UNCHANGED <<kernel, history>>

Fds == DOMAIN table \cup Targets

Next ==
  \/ \E path \in Paths : \/ \E source \in Sources : MountFile(path, source)
                         \/ MountDevice(path)
                         \/ OpenFails(path) \/ OpenFile(path) \/ OpenDevice(path)
  \/ \E fd \in Fds : \/ Close(fd) \/ Dup(fd) \/ Query(fd)
                     \/ \E target \in Targets : Dup3(fd, target)
                     \/ \E n \in Counts : Read(fd, n) \/ Write(fd, n)

Spec == Init /\ [][Next]_vars
-----------------------------------------------------------------------------
(* Types; a device instance is behind exactly the entries of kind Device.  *)
TypeOK ==
  /\ Streams \subseteq DOMAIN table /\ nextFd \in 3..(MaxFd + 1)
  /\ \A fd \in DOMAIN table :
       /\ table[fd].cursor \in Nat /\ table[fd].len \in Nat
       /\ table[fd].dev # 0 <=> table[fd].kind = "Device"
       /\ table[fd].dev \in DOMAIN devices \cup {0}
  /\ stdout \in Nat /\ factories \in Nat
  /\ \A f \in HostFiles : hostLen[f] \in Nat

(***************************************************************************)
(* After any number of dup, dup3 and close, the number an entry carries    *)
(* (what a device is told in its contexts) is the slot it sits in.         *)
(***************************************************************************)
SlotNumber == \A fd \in DOMAIN table : table[fd].fd = fd

(***************************************************************************)
(* Slots 0, 1 and 2 hold the streams made at boot: no close, and no dup3   *)
(* aimed at them, takes them away.                                         *)
(***************************************************************************)
StreamsStay == \A fd \in Streams : table[fd].kind = StreamKind[fd] /\ table[fd].opened = fd

(***************************************************************************)
(* Every descriptor was made by an allocation below next_fd or put where   *)
(* it is by dup3: without dup3 past next_fd, allocate never meets a live   *)
(* entry.                                                                  *)
(***************************************************************************)
AllocatedBelow == \A fd \in DOMAIN table : fd < nextFd \/ fd \in placed

(***************************************************************************)
(* What a descriptor reads and writes is the node its path is mounted to,  *)
(* however often the descriptor was copied and the path mounted again.     *)
(***************************************************************************)
NodeBehindFd ==
  \A fd \in DOMAIN table :
    LET e == table[fd]
    IN  e.path # "none" =>
          /\ e.path \in DOMAIN vfs
          /\ vfs[e.path] = IF e.kind = "Device"
                             THEN [type |-> "Device", node |-> devices[e.dev].node]
                             ELSE [type |-> "File", node |-> e.source]

(***************************************************************************)
(* No cursor passes the end of a Bytes or a host file: one entry's writes  *)
(* to a host file and another's reads, failures half way included, leave   *)
(* no hole.  What a provider decides to answer may end anywhere.           *)
(***************************************************************************)
CursorInFile ==
  \A fd \in DOMAIN table : table[fd].from # "Dynamic" => table[fd].cursor <= Size(table[fd])

(***************************************************************************)
(* The accounts of a device: each descriptor ever made for it is live, was *)
(* closed with one call of its close, or was pushed out by a later entry   *)
(* under its number.  No close reaches it twice for one descriptor.        *)
(***************************************************************************)
DeviceAccounts ==
  \A d \in DOMAIN devices :
    devices[d].made = devices[d].closed + devices[d].dropped
                        + Cardinality({fd \in DOMAIN table : table[fd].dev = d})

(***************************************************************************)
(* A write that fails leaves every cursor where it was, so the guest can   *)
(* repeat it, even when the host file took part of the bytes.              *)
(***************************************************************************)
FailedWriteRepeats ==
  [][last'.op = "write" /\ last'.status # "ok" => table' = table]_vars

(***************************************************************************)
(* The table as a later call finds it, after any sequence of opens, copies *)
(* and closes: entries under their own numbers, streams where they were,   *)
(* numbers accounted for, cursors inside their files.                      *)
(***************************************************************************)
TableSound == SlotNumber /\ StreamsStay /\ AllocatedBelow /\ CursorInFile

(* What a descriptor is for is told by its kind, its device instance and   *)
(* the node its path is mounted to, which always go together.              *)
NodesSound == TypeOK /\ NodeBehindFd
=============================================================================
