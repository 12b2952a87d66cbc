---------------------------- MODULE ArabFSProofs ----------------------------
(***************************************************************************)
(* Proofs about module ArabFS, for every number of entries, sectors and    *)
(* inodes and every set of paths: on a disk whose commands succeed, the    *)
(* signature comes after the root directory, no entry vanishes, and files  *)
(* keep their own inodes, wherever the machine stops.                      *)
(***************************************************************************)
EXTENDS ArabFS, WellFoundedInduction, TLAPS

\* The least element of a set of numbers is one of them.
LEMMA MinOfNat ==
    ASSUME NEW S, S \subseteq Nat, S # {}
    PROVE  Min(S) \in S
  <1> DEFINE R == OpToRel(<, Nat)
  <1>1. PICK x \in S : \A y \in S : ~ (<<y, x>> \in R)
    BY NatLessThanWellFounded, WFMin
  <1>2. \A y \in S : <<y, x>> \in R <=> y < x
    BY <1>1 DEF OpToRel
  <1> HIDE DEF R
  <1>3. \A y \in S : ~ (y < x)
    BY <1>1, <1>2
  <1>4. \A y \in S : x <= y
    BY <1>3
  <1> QED BY <1>4 DEF Min

---------------------------------------------------------------------------
(* The inductive invariant.                                                *)

Calls == {"mkdir", "rmdir", "delete", "create", "list", "read"}

\* What a call may be doing, whatever becomes of the disk.
CallOK ==
    /\ DOMAIN call = {"op", "path", "at", "sector", "inode", "entry"}
    /\ call.sector \in Nat
    /\ call.at \in {"load", "save", "format"} => call.sector < Sectors
    /\ call.at \in {"load_inodes", "save_inodes", "save_freed"} => call.sector < InodeSectors
    /\ call.at \in {"mkdir", "add_entry"} => call.sector = 0
    /\ At("load") => call.op \in Calls
    /\ At("load_inodes") => call.op \in {"create", "read"}
    /\ call.at \in Calls => call.op = call.at
    /\ call.at \in {"data", "save_inodes", "add_entry"} =>
          call.op = "create" /\ call.inode \in Inodes
    /\ call.at \in {"save_freed", "remove_entry"} => call.op = "delete" /\ deleted
    /\ At("save") =>
          /\ call.op \in {"mkdir", "create", "rmdir", "delete"}
          /\ call.op = "delete" => deleted

\* A table of entries, each with its fields.
Shaped(t) == DOMAIN t = Entries /\ \A e \in Entries : t[e] = [f \in Fields |-> t[e][f]]

TypeInv ==
    /\ Shaped(table) /\ DOMAIN inodes = Inodes
    /\ DOMAIN disk = {"signed", "entries", "inodes"}
    /\ disk.signed \in BOOLEAN
    /\ Shaped(disk.entries) /\ DOMAIN disk.inodes = Inodes
    /\ failures \in Nat
    /\ CallOK

\* The device takes commands.
Working == Reliable /\ Usable /\ FreeSlots # {}

\* The words of the table that the disk has.
OnDisk(e, f) == SectorOf[e][f] < Sectors

\* A file with a lasting inode.
IsFile(x) == x.used /\ ~ x.dir /\ x.inode \in Lasting

FilesIn(t, bits) ==
    \A e, f \in Whole :
        IsFile(t[e]) => /\ bits[t[e].inode]
                        /\ IsFile(t[f]) /\ t[f].inode = t[e].inode => e = f

DiskOK ==
    /\ disk.signed => disk.entries[0] = Root
    /\ ~ disk.signed => \A e \in Entries : disk.entries[e] = Empty \/ (e = 0 /\ disk.entries[e] = Root)
    /\ \A e \in Entries, f \in Fields : ~ OnDisk(e, f) => disk.entries[e][f] = Empty[f]
    /\ ~ deleted => FilesIn(disk.entries, disk.inodes)

\* The sectors before s have been read.
LoadedTo(s) ==
    \A e \in Entries, f \in Fields : SectorOf[e][f] < s => table[e][f] = disk.entries[e][f]
InodesTo(s) == \A i \in Inodes : InodeSectorOf[i] < s => inodes[i] = disk.inodes[i]

\* The table has what the disk has and the words of the new entry, of which the
\* disk may have those in the sectors already written ...
Added ==
    \A e \in Entries, f \in Fields : OnDisk(e, f) /\ table[e][f] # disk.entries[e][f] =>
        e = call.entry /\ (disk.entries[e].used => SectorOf[e].used < call.sector)

\* ... or lacks the mark of the entry that was removed, of a file or of an empty
\* directory.
Removed ==
    \A e \in Entries, f \in Fields : OnDisk(e, f) /\ table[e][f] # disk.entries[e][f] =>
        /\ f = "used" /\ table[e].used = FALSE
        /\ disk.entries[e].dir =>
              ~ \E c \in Entries : disk.entries[c].used /\ disk.entries[c].parent = e

\* The inode of the file being created is no other file's.
OwnInode ==
    \A e \in Whole : IsFile(disk.entries[e]) => disk.entries[e].inode # call.inode

\* The files in the table and on the disk have inodes on the disk, each its own.
Creating ==
    \A e, f \in Whole : OnDisk(e, "used") /\ OnDisk(f, "used") =>
      \A x \in {table[e], disk.entries[e]}, y \in {table[f], disk.entries[f]} :
        IsFile(x) => disk.inodes[x.inode] /\ (IsFile(y) /\ y.inode = x.inode => e = f)

WorkOK ==
    /\ call.at \notin {"off", "check", "format", "sign"} => disk.signed
    /\ At("format") =>
          /\ ~ disk.signed
          /\ table = [NoTable EXCEPT ![0] = Root]
          /\ 0 < call.sector => disk.entries[0] = Root
    /\ At("sign") => ~ disk.signed /\ disk.entries[0] = Root
    /\ At("load_inodes") => InodesTo(call.sector)
    /\ At("load") => LoadedTo(call.sector)
    /\ call.at \in Calls \cup {"data", "save_inodes", "add_entry", "save_freed", "remove_entry"}
          => LoadedTo(Sectors)
    /\ (At("load") /\ call.op = "create") \/ At("create") => InodesTo(InodeSectors)
    /\ call.at \in {"data", "save_inodes"} =>
          inodes[call.inode] /\ \A i \in Lasting : disk.inodes[i] => inodes[i]
    /\ At("save_inodes") /\ InodeSectorOf[call.inode] < call.sector => disk.inodes[call.inode]
    /\ At("add_entry") /\ call.inode \in Lasting => disk.inodes[call.inode]
    /\ call.at \in {"data", "save_inodes", "add_entry"} /\ ~ deleted => OwnInode
    /\ call.at \in {"save_freed", "remove_entry"} => ~ table[Target].dir
    /\ At("save") =>
          /\ table[0] = Root
          /\ call.op \in {"mkdir", "create"} => Added
          /\ call.op \in {"rmdir", "delete"} => Removed
          /\ ~ deleted => Creating

FsInv == /\ TypeInv
         /\ Reliable => DiskOK
         /\ Working => WorkOK

---------------------------------------------------------------------------
(* Sector commands.                                                        *)

\* While no command has failed, a command succeeds on a device that takes
\* commands and on no other; one that fails ends that time.
LEMMA CommandEffect ==
    ASSUME failures \in Nat, NEW ok \in BOOLEAN, Command(ok)
    PROVE  /\ failures' \in Nat
           /\ Reliable' => Reliable
           /\ ok /\ Reliable => Working
           /\ Working' => ok /\ Working
  <1>1. CASE ok
    <2>1. Usable /\ FreeSlots # {} /\ UNCHANGED <<device, ci, halted, failures>>
      BY <1>1 DEF Command, Succeeds, sataVars
    <2> QED BY <1>1, <2>1 DEF Working, Reliable, Usable, FreeSlots
  <1>2. CASE ~ ok /\ Refused
    <2>1. /\ failures' = IF Usable /\ FreeSlots # {} THEN failures + 1 ELSE failures
          /\ UNCHANGED <<device, ci, halted>>
      BY <1>2 DEF Refused
    <2>2. CASE Usable /\ FreeSlots # {}
      BY <1>2, <2>1, <2>2 DEF Working, Reliable
    <2>3. CASE ~ (Usable /\ FreeSlots # {})
      BY <1>2, <2>1, <2>3 DEF Working, Reliable, Usable, FreeSlots
    <2> QED BY <2>2, <2>3
  <1>3. CASE ~ ok /\ Aborts
    BY <1>3 DEF Aborts, Working, Reliable
  <1> QED BY <1>1, <1>2, <1>3 DEF Command

\* A step without a command leaves the device as it is.
LEMMA NoCommand ==
    ASSUME UNCHANGED <<device, ci, halted, failures>>
    PROVE  Reliable' = Reliable /\ Working' = Working
  <1> QED BY DEF Working, Reliable, Usable, FreeSlots

LEMMA GotoSets ==
    ASSUME CallOK, NEW step, Goto(step)
    PROVE  /\ call'.at = step /\ call'.sector = 0 /\ call'.op = call.op
           /\ call'.path = call.path /\ call'.inode = call.inode /\ call'.entry = call.entry
           /\ DOMAIN call' = DOMAIN call /\ 0 \in Nat /\ 0 < Sectors /\ 0 < InodeSectors
  <1> QED BY ArabFSAssumption DEF CallOK, Goto

LEMMA ReturnSets ==
    ASSUME Return
    PROVE  call'.at = "idle" /\ CallOK'
  <1>1. call' = [op |-> "none", path |-> <<>>, at |-> "idle", sector |-> 0, inode |-> 0,
                 entry |-> NotFound]
    BY DEF Return, Idle, Off
  <1> QED BY <1>1 DEF CallOK, Calls, At

\* After a sector the call is at the next one, or it goes on.
LEMMA NextSets ==
    ASSUME CallOK, NEW n, NEW next, NextSector(n, next)
    PROVE  \/ /\ call.sector + 1 < n /\ call'.sector = call.sector + 1
              /\ call'.at = call.at /\ call'.op = call.op /\ call'.path = call.path
              /\ call'.inode = call.inode /\ call'.entry = call.entry
              /\ DOMAIN call' = DOMAIN call
           \/ /\ ~ (call.sector + 1 < n)
              /\ IF next = "idle" THEN Return ELSE Goto(next)
  <1>1. CASE call.sector + 1 < n
    <2>1. call' = [call EXCEPT !.sector = @ + 1]
      BY <1>1 DEF NextSector
    <2> QED BY <1>1, <2>1 DEF CallOK
  <1>2. CASE ~ (call.sector + 1 < n)
    BY <1>2 DEF NextSector
  <1> QED BY <1>1, <1>2

---------------------------------------------------------------------------
(* Entries and their fields.                                               *)

LEMMA EntryShapes ==
    /\ Empty = [f \in Fields |-> Empty[f]]
    /\ Root = [f \in Fields |-> Root[f]]
    /\ \A old, isDir, inode :
          NewEntry(old, isDir, inode) = [f \in Fields |-> NewEntry(old, isDir, inode)[f]]
  BY DEF Empty, Root, NewEntry, Fields

\* Taking an entry's mark away leaves its other fields.
LEMMA Unmarked ==
    ASSUME NEW x, x = [f \in Fields |-> x[f]]
    PROVE  LET y == [x EXCEPT !.used = FALSE]
           IN /\ y = [f \in Fields |-> y[f]] /\ y.used = FALSE
              /\ \A f \in Fields : f # "used" => y[f] = x[f]
  BY DEF Fields

LEMMA EntriesShaped ==
    /\ Shaped(NoTable)
    /\ Shaped([NoTable EXCEPT ![0] = Root])
  BY EntryShapes DEF Shaped, NoTable

\* A table with one entry changed.
LEMMA ChangedShape ==
    ASSUME Shaped(table), NEW n, NEW x, x = [f \in Fields |-> x[f]],
           table' = [table EXCEPT ![n] = x]
    PROVE  Shaped(table) /\ Shaped(table')
  BY DEF Shaped

LEMMA UnmarkedShape ==
    ASSUME Shaped(table), NEW n, table' = [table EXCEPT ![n].used = FALSE]
    PROVE  /\ Shaped(table')
           /\ \A e \in Entries : e # n => table'[e] = table[e]
           /\ n \in Entries => table'[n] = [table[n] EXCEPT !.used = FALSE]
  <1>1. \A e \in Entries : e # n => table'[e] = table[e]
    BY DEF Shaped
  <1>2. n \in Entries => table'[n] = [table[n] EXCEPT !.used = FALSE]
    BY DEF Shaped
  <1>3. ASSUME NEW e \in Entries PROVE table'[e] = [f \in Fields |-> table'[e][f]]
    <2>1. table[e] = [f \in Fields |-> table[e][f]]
      BY DEF Shaped
    <2>2. CASE e = n
      BY <1>2, <2>1, <2>2, Unmarked
    <2>3. CASE e # n
      BY <1>1, <2>1, <2>3
    <2> QED BY <2>2, <2>3
  <1>4. DOMAIN table' = Entries
    BY DEF Shaped
  <1> QED BY <1>1, <1>2, <1>3, <1>4 DEF Shaped

LEMMA SectorShape ==
    ASSUME NEW t, NEW u, NEW s
    PROVE  Shaped(TakeSector(t, u, s))
  BY DEF Shaped, TakeSector

---------------------------------------------------------------------------
(* Types, and where a call can be.                                         *)

LEMMA InitTypes == Init => TypeInv
  <1> SUFFICES ASSUME Init PROVE TypeInv
    OBVIOUS
  <1>1. CallOK
    BY DEF Init, Off, CallOK, At, Calls
  <1>2. Shaped(table) /\ DOMAIN inodes = Inodes
    BY EntriesShaped DEF Init, NoInodes
  <1>3. disk = [signed |-> FALSE, entries |-> NoTable, inodes |-> NoInodes]
    BY DEF Init
  <1>4. Shaped(disk.entries) /\ DOMAIN disk.inodes = Inodes
    BY <1>3, EntriesShaped DEF NoInodes
  <1>5. DOMAIN disk = {"signed", "entries", "inodes"} /\ disk.signed \in BOOLEAN
    BY <1>3
  <1> QED BY <1>1, <1>2, <1>4, <1>5 DEF Init, SataInit, TypeInv

LEMMA NextTypes == TypeInv /\ [Next]_vars => TypeInv'
  <1> SUFFICES ASSUME TypeInv, [Next]_vars PROVE TypeInv'
    OBVIOUS
  <1> USE DEF At
  <1>1. CallOK /\ failures \in Nat
    BY DEF TypeInv
  <1>2. ASSUME UNCHANGED <<table, inodes, disk>>, failures' \in Nat, CallOK'
        PROVE  TypeInv'
    BY <1>2 DEF TypeInv
  <1>3. ASSUME NEW ok \in BOOLEAN, Command(ok) PROVE failures' \in Nat
    BY <1>1, <1>3, CommandEffect
  <1>4. CASE Boot
    BY <1>1, <1>2, <1>4, GotoSets DEF Boot, sata_init, CallOK, Calls
  <1>5. CASE Crash
    <2>1. CallOK'
      BY <1>5 DEF Crash, Off, CallOK, Calls
    <2> QED BY <1>5, <2>1, EntriesShaped DEF Crash, SataOff, NoInodes, TypeInv
  <1>6. CASE IsFormatted
    <2>1. failures' \in Nat /\ UNCHANGED <<inodes, disk>>
      BY <1>3, <1>6 DEF IsFormatted
    <2>2. CallOK' /\ Shaped(table')
      <3>1. \/ Return /\ UNCHANGED table
            \/ Goto("format") /\ table' = [NoTable EXCEPT ![0] = Root]
        <4>1. PICK ok \in BOOLEAN, formatted \in BOOLEAN :
                 IF formatted THEN Return /\ UNCHANGED table
                 ELSE Goto("format") /\ table' = [NoTable EXCEPT ![0] = Root]
          BY <1>6 DEF IsFormatted, TypeInv
        <4>2. CASE formatted
          BY <4>1, <4>2
        <4>3. CASE ~ formatted
          BY <4>1, <4>3
        <4> QED BY <4>2, <4>3
      <3>2. CASE Return /\ UNCHANGED table
        BY <3>2, ReturnSets DEF TypeInv
      <3>3. CASE Goto("format") /\ table' = [NoTable EXCEPT ![0] = Root]
        <4>1. CallOK'
          BY <1>1, <3>3, GotoSets DEF CallOK, Calls
        <4> QED BY <3>3, <4>1, EntriesShaped
      <3> QED BY <3>1, <3>2, <3>3
    <2> QED BY <2>1, <2>2 DEF TypeInv
  <1>7. ASSUME NEW next, next \in {"idle", "sign"}, SaveTable(next),
               call.at \in {"save", "format"}
        PROVE  TypeInv'
    <2>1. PICK ok \in BOOLEAN :
            /\ Command(ok)
            /\ disk' = IF ok THEN [disk EXCEPT !.entries = TakeSector(@, table, call.sector)]
                       ELSE disk
      BY <1>7 DEF SaveTable
    <2>2. NextSector(Sectors, next) /\ UNCHANGED <<table, inodes, deleted>>
      BY <1>7 DEF SaveTable
    <2>3. CallOK'
      <3>1. CASE call.sector + 1 < Sectors
        BY <1>1, <1>7, <2>2, <3>1, NextSets DEF CallOK, Calls
      <3>2. CASE ~ (call.sector + 1 < Sectors) /\ next = "idle"
        BY <1>1, <2>2, <3>2, NextSets, ReturnSets
      <3>3. CASE ~ (call.sector + 1 < Sectors) /\ next = "sign"
        <4>1. Goto("sign")
          BY <1>1, <2>2, <3>3, NextSets
        <4> QED BY <1>1, <4>1, GotoSets DEF CallOK, Calls
      <3> QED BY <1>7, <3>1, <3>2, <3>3
    <2>4. Shaped(TakeSector(disk.entries, table, call.sector))
      BY SectorShape
    <2> HIDE DEF Shaped
    <2> QED BY <1>3, <2>1, <2>2, <2>3, <2>4 DEF TypeInv
  <1>8. CASE FormatTable
    BY <1>7, <1>8 DEF FormatTable
  <1>9. CASE Save
    BY <1>7, <1>9 DEF Save
  <1>10. CASE WriteSignature
    <2>1. PICK ok \in BOOLEAN :
            Command(ok) /\ disk' = IF ok THEN [disk EXCEPT !.signed = TRUE] ELSE disk
      BY <1>10 DEF WriteSignature
    <2>2. CallOK' /\ UNCHANGED <<table, inodes>>
      BY <1>10, ReturnSets DEF WriteSignature
    <2> QED BY <1>3, <2>1, <2>2 DEF TypeInv
  <1>11. CASE BeginCall
    <2>1. PICK op \in Calls, path \in Paths \cup {<<>>}, step \in {"load", "load_inodes"} :
             /\ Begin(op, path, step)
             /\ step = "load_inodes" => op \in {"create", "read"}
      BY <1>11 DEF BeginCall, Calls
    <2>2. /\ call' = [op |-> op, path |-> path, at |-> step, sector |-> 0, inode |-> 0,
                       entry |-> NotFound]
          /\ UNCHANGED <<table, inodes, disk, failures>>
      BY <2>1 DEF Begin, Idle, Off
    <2>3. CallOK'
      BY <2>1, <2>2, ArabFSAssumption DEF CallOK, Calls
    <2> QED BY <1>1, <1>2, <2>2, <2>3
  <1>12. CASE Load
    <2>1. ASSUME At("load_inodes"), LoadInodes("load") PROVE TypeInv'
      <3>1. PICK ok \in BOOLEAN :
               /\ Command(ok)
               /\ inodes' = IF ok THEN TakeInodes(inodes, disk.inodes, call.sector) ELSE inodes
        BY <2>1 DEF LoadInodes
      <3>2. NextSector(InodeSectors, "load") /\ UNCHANGED <<table, disk, deleted>>
        BY <2>1 DEF LoadInodes
      <3>3. CallOK'
        <4>1. CASE call.sector + 1 < InodeSectors
          BY <1>1, <2>1, <3>2, <4>1, NextSets DEF CallOK, Calls
        <4>2. CASE ~ (call.sector + 1 < InodeSectors)
          <5>1. Goto("load")
            BY <1>1, <3>2, <4>2, NextSets
          <5> QED BY <1>1, <2>1, <5>1, GotoSets DEF CallOK, Calls
        <4> QED BY <4>1, <4>2
      <3>4. DOMAIN inodes' = Inodes
        BY <3>1 DEF TakeInodes, TypeInv
      <3> QED BY <1>3, <3>1, <3>2, <3>3, <3>4 DEF TypeInv
    <2>2. ASSUME At("load"), LoadTable(call.op) PROVE TypeInv'
      <3>1. PICK ok \in BOOLEAN :
               /\ Command(ok)
               /\ table' = IF ok THEN TakeSector(table, disk.entries, call.sector) ELSE table
        BY <2>2 DEF LoadTable
      <3>2. NextSector(Sectors, call.op) /\ UNCHANGED <<inodes, disk, deleted>>
            /\ call.op \in Calls
        BY <1>1, <2>2 DEF LoadTable, CallOK
      <3>3. CallOK'
        <4>1. CASE call.sector + 1 < Sectors
          BY <1>1, <2>2, <3>2, <4>1, NextSets DEF CallOK, Calls
        <4>2. CASE ~ (call.sector + 1 < Sectors)
          <5>1. Goto(call.op)
            BY <1>1, <3>2, <4>2, NextSets DEF Calls
          <5> QED BY <1>1, <3>2, <5>1, GotoSets DEF CallOK, Calls
        <4> QED BY <4>1, <4>2
      <3>4. Shaped(table')
        BY <3>1, SectorShape DEF TypeInv
      <3> QED BY <1>3, <3>1, <3>2, <3>3, <3>4 DEF TypeInv
    <2> QED BY <1>12, <2>1, <2>2 DEF Load
  <1>13. CASE Look
    BY <1>1, <1>2, <1>13, ReturnSets DEF Look
  <1>14. CASE Mkdir
    <2>1. call.at = "mkdir" /\ UNCHANGED <<inodes, disk, deleted, failures>>
      BY <1>14 DEF Mkdir
    <2>2. CASE Return /\ UNCHANGED table
      BY <2>1, <2>2, ReturnSets DEF TypeInv
    <2>3. CASE ~ (Return /\ UNCHANGED table)
      <3>1. PICK e : /\ table' = [table EXCEPT ![e] = NewEntry(@, TRUE, @.inode)]
                     /\ call' = [call EXCEPT !.at = "save", !.entry = e]
        BY <1>14, <2>3 DEF Mkdir
      <3>2. Shaped(table')
        <4> DEFINE x == NewEntry(table[e], TRUE, table[e].inode)
        <4>1. table' = [table EXCEPT ![e] = x] /\ x = [f \in Fields |-> x[f]]
          BY <3>1, EntryShapes
        <4> HIDE DEF x
        <4> QED BY <4>1, ChangedShape DEF TypeInv
      <3>3. CallOK'
        BY <1>1, <2>1, <3>1, ArabFSAssumption DEF CallOK, Calls
      <3> QED BY <2>1, <3>2, <3>3 DEF TypeInv
    <2> QED BY <2>2, <2>3
  <1>15. CASE Rmdir
    <2>1. call.at = "rmdir" /\ UNCHANGED <<inodes, disk, deleted, failures>>
      BY <1>15 DEF Rmdir
    <2>2. CASE Return /\ UNCHANGED table
      BY <2>1, <2>2, ReturnSets DEF TypeInv
    <2>3. CASE ~ (Return /\ UNCHANGED table)
      <3>1. table' = [table EXCEPT ![Target].used = FALSE] /\ Goto("save")
        BY <1>15, <2>3 DEF Rmdir
      <3>2. Shaped(table')
        BY <3>1, UnmarkedShape DEF TypeInv
      <3>3. CallOK'
        BY <1>1, <2>1, <3>1, GotoSets DEF CallOK, Calls
      <3> QED BY <2>1, <3>2, <3>3 DEF TypeInv
    <2> QED BY <2>2, <2>3
  <1>16. CASE CreateInode
    <2>1. CallOK'
      <3>1. CASE Parent = NotFound \/ FreeInodes = {}
        BY <1>16, <3>1, ReturnSets DEF CreateInode
      <3>2. CASE ~ (Parent = NotFound \/ FreeInodes = {})
        <4>1. call' = [call EXCEPT !.at = "data", !.inode = Min(FreeInodes)]
          BY <1>16, <3>2 DEF CreateInode
        <4>2. Min(FreeInodes) \in Inodes
          <5>1. FreeInodes \subseteq Nat
            BY ArabFSAssumption DEF FreeInodes, Inodes
          <5> QED BY <3>2, <5>1, MinOfNat DEF FreeInodes
        <4>3. call.op = "create"
          BY <1>1, <1>16 DEF CreateInode, CallOK, Calls
        <4> QED BY <1>1, <4>1, <4>2, <4>3 DEF CallOK, Calls
      <3> QED BY <3>1, <3>2
    <2>2. DOMAIN inodes' = DOMAIN inodes /\ UNCHANGED <<table, disk, failures>>
      BY <1>16 DEF CreateInode
    <2> QED BY <2>1, <2>2 DEF TypeInv
  <1>17. CASE WriteData
    <2>1. CallOK'
      BY <1>1, <1>17, GotoSets DEF WriteData, CallOK, Calls
    <2>2. PICK ok \in BOOLEAN, said \in [Overlaid -> BOOLEAN] :
            /\ Command(ok)
            /\ disk' = IF ok THEN [disk EXCEPT !.inodes = [i \in Inodes |->
                                     IF i \in Overlaid THEN said[i] ELSE @[i]]] ELSE disk
      BY <1>17 DEF WriteData
    <2>3. UNCHANGED <<table, inodes>>
      BY <1>17 DEF WriteData
    <2> QED BY <1>3, <2>1, <2>2, <2>3 DEF TypeInv
  <1>18. ASSUME NEW next, next \in {"add_entry", "remove_entry"}, SaveInodes(next),
                next = "add_entry" => call.at = "save_inodes",
                next = "remove_entry" => call.at = "save_freed"
         PROVE  TypeInv'
    <2>1. PICK ok \in BOOLEAN :
            /\ Command(ok)
            /\ disk' = IF ok THEN [disk EXCEPT !.inodes = TakeInodes(@, inodes, call.sector)]
                       ELSE disk
      BY <1>18 DEF SaveInodes
    <2>2. NextSector(InodeSectors, next) /\ UNCHANGED <<table, inodes, deleted>>
      BY <1>18 DEF SaveInodes
    <2>3. CallOK'
      <3>1. CASE call.sector + 1 < InodeSectors
        BY <1>1, <1>18, <2>2, <3>1, NextSets DEF CallOK, Calls
      <3>2. CASE ~ (call.sector + 1 < InodeSectors)
        <4>1. Goto(next)
          BY <1>1, <1>18, <2>2, <3>2, NextSets
        <4> QED BY <1>1, <1>18, <2>2, <4>1, GotoSets DEF CallOK, Calls
      <3> QED BY <3>1, <3>2
    <2>4. DOMAIN TakeInodes(disk.inodes, inodes, call.sector) = Inodes
      BY DEF TakeInodes
    <2> QED BY <1>3, <2>1, <2>2, <2>3, <2>4 DEF TypeInv
  <1>19. CASE SaveCreated
    BY <1>18, <1>19 DEF SaveCreated
  <1>20. CASE SaveFreed
    BY <1>18, <1>20 DEF SaveFreed
  <1>21. CASE AddEntry
    <2>1. call.at = "add_entry" /\ UNCHANGED <<inodes, disk, deleted, failures>>
      BY <1>21 DEF AddEntry
    <2>2. CASE Goto("save") /\ UNCHANGED table
      <3>1. CallOK'
        BY <1>1, <2>1, <2>2, GotoSets DEF CallOK, Calls
      <3> QED BY <2>1, <2>2, <3>1 DEF TypeInv
    <2>3. CASE ~ (Goto("save") /\ UNCHANGED table)
      <3>1. PICK e : /\ table' = [table EXCEPT ![e] = NewEntry(@, FALSE, call.inode)]
                     /\ call' = [call EXCEPT !.at = "save", !.entry = e]
        BY <1>21, <2>3 DEF AddEntry
      <3>2. Shaped(table')
        <4> DEFINE x == NewEntry(table[e], FALSE, call.inode)
        <4>1. table' = [table EXCEPT ![e] = x] /\ x = [f \in Fields |-> x[f]]
          BY <3>1, EntryShapes
        <4> HIDE DEF x
        <4> QED BY <4>1, ChangedShape DEF TypeInv
      <3>3. CallOK'
        BY <1>1, <2>1, <3>1, ArabFSAssumption DEF CallOK, Calls
      <3> QED BY <2>1, <3>2, <3>3 DEF TypeInv
    <2> QED BY <2>2, <2>3
  <1>22. CASE DeleteInode
    <2>1. CallOK'
      <3>1. Return \/ (Goto("save_freed") /\ deleted')
        BY <1>22 DEF DeleteInode
      <3>2. At("delete")
        BY <1>22 DEF DeleteInode
      <3> QED BY <1>1, <3>1, <3>2, GotoSets, ReturnSets DEF CallOK, Calls
    <2>2. DOMAIN inodes' = DOMAIN inodes /\ UNCHANGED <<table, disk, failures>>
      BY <1>22 DEF DeleteInode
    <2> QED BY <2>1, <2>2 DEF TypeInv
  <1>23. CASE RemoveEntry
    <2>1. CallOK'
      BY <1>1, <1>23, GotoSets DEF RemoveEntry, CallOK, Calls
    <2>2. Shaped(table')
      BY <1>23, UnmarkedShape DEF RemoveEntry, TypeInv
    <2> QED BY <1>23, <2>1, <2>2 DEF RemoveEntry, TypeInv
  <1>24. CASE UNCHANGED vars
    BY <1>24 DEF vars, TypeInv, CallOK
  <1> QED BY <1>4, <1>5, <1>6, <1>8, <1>9, <1>10, <1>11, <1>12, <1>13, <1>14, <1>15,
             <1>16, <1>17, <1>19, <1>20, <1>21, <1>22, <1>23, <1>24 DEF Next
---------------------------------------------------------------------------
(* The steps keep the rest of the invariant: first those that leave the    *)
(* disk alone.                                                             *)

\* What a step must keep beside the types.
Kept == (Reliable' => DiskOK') /\ (Working' => WorkOK')

LEMMA DiskSame ==
    ASSUME FsInv, UNCHANGED disk, ~ deleted' => ~ deleted, Reliable' => Reliable
    PROVE  Reliable' => DiskOK'
  <1>1. ASSUME Reliable' PROVE DiskOK
    BY <1>1 DEF FsInv
  <1> QED BY <1>1 DEF DiskOK

\* At these places nothing is said of the memory.
Quiet == {"idle", "off", "check"}

LEMMA QuietKept ==
    ASSUME FsInv, UNCHANGED disk, ~ deleted' => ~ deleted, Reliable' => Reliable,
           call'.at \in Quiet, Working' /\ call'.at \notin {"off", "check"} => disk.signed
    PROVE  Kept
  <1>1. Reliable' => DiskOK'
    BY DiskSame
  <1>2. Working' => WorkOK'
    BY DEF WorkOK, At, Quiet, Calls
  <1> QED BY <1>1, <1>2 DEF Kept

\* What the disk has of an entry is not more than the table on it.
LEMMA UsedOnDisk ==
    ASSUME DiskOK, NEW e \in Entries
    PROVE  /\ disk.entries[e].used => OnDisk(e, "used")
           /\ disk.entries[e].dir => OnDisk(e, "dir")
           /\ disk.entries[e].parent # 0 => OnDisk(e, "parent")
  <1>1. \A f \in Fields : ~ OnDisk(e, f) => disk.entries[e][f] = Empty[f]
    BY DEF DiskOK
  <1>2. "used" \in Fields /\ "dir" \in Fields /\ "parent" \in Fields
    BY DEF Fields
  <1>3. Empty.used = FALSE /\ Empty.dir = FALSE /\ Empty.parent = 0
    BY DEF Empty
  <1> QED BY <1>1, <1>2, <1>3

\* The root directory is in the memory once a table has been loaded.
LEMMA RootLoaded ==
    ASSUME FsInv, Working, LoadedTo(Sectors), disk.signed
    PROVE  0 \in Entries /\ table[0] = Root /\ Root.used /\ Root.dir
  <1>1. Reliable
    BY DEF Working
  <1>2. disk.entries[0] = Root
    BY <1>1 DEF FsInv, DiskOK
  <1>3. 0 \in Entries /\ \A f \in Fields : SectorOf[0][f] < Sectors
    BY ArabFSAssumption DEF Entries
  <1>4. \A f \in Fields : table[0][f] = Root[f]
    BY <1>2, <1>3 DEF LoadedTo
  <1>5. table[0] = [f \in Fields |-> table[0][f]]
    BY <1>3 DEF FsInv, TypeInv, Shaped
  <1>6. table[0] = Root
    BY <1>4, <1>5, EntryShapes
  <1>7. Root.used /\ Root.dir
    BY DEF Root, Empty
  <1> QED BY <1>3, <1>6, <1>7

LEMMA BootKept ==
    ASSUME FsInv, Boot \/ Crash
    PROVE  Kept
  <1>1. UNCHANGED <<disk, deleted, failures>>
    BY DEF Boot, Crash, sata_init, SataOff
  <1>2. call'.at \in {"off", "check"}
    <2>1. CASE Boot
      BY <2>1, GotoSets DEF Boot, FsInv, TypeInv
    <2>2. CASE Crash
      BY <2>2 DEF Crash, Off
    <2> QED BY <2>1, <2>2
  <1>3. Reliable' => Reliable
    BY <1>1 DEF Reliable
  <1> QED BY <1>1, <1>2, <1>3, QuietKept DEF Quiet

LEMMA IsFormattedKept ==
    ASSUME FsInv, IsFormatted
    PROVE  Kept
  <1>1. TypeInv
    BY DEF FsInv
  <1>2. PICK ok \in BOOLEAN, formatted \in BOOLEAN :
           /\ ok => formatted = disk.signed
           /\ Command(ok)
           /\ IF formatted THEN Return /\ UNCHANGED table
              ELSE Goto("format") /\ table' = [NoTable EXCEPT ![0] = Root]
    BY <1>1 DEF IsFormatted, TypeInv
  <1>3. UNCHANGED <<disk, deleted>>
    BY DEF IsFormatted
  <1>4. Reliable' => Reliable /\ (Working' => ok)
    BY <1>1, <1>2, CommandEffect DEF TypeInv
  <1>5. Working' => Reliable'
    BY DEF Working
  <1>6. CASE formatted
    <2>1. call'.at = "idle"
      BY <1>2, <1>6, ReturnSets
    <2> QED BY <1>2, <1>3, <1>4, <1>5, <1>6, <2>1, QuietKept DEF Quiet
  <1>7. CASE ~ formatted
    <2>1. call'.at = "format" /\ call'.sector = 0 /\ table' = [NoTable EXCEPT ![0] = Root]
      BY <1>1, <1>2, <1>7, GotoSets DEF TypeInv
    <2>3. Working' => WorkOK'
      BY <1>2, <1>3, <1>4, <1>5, <1>7, <2>1 DEF WorkOK, At, Calls
    <2>4. Reliable' => DiskOK'
      BY <1>3, <1>4, DiskSame
    <2> QED BY <2>3, <2>4 DEF Kept
  <1> QED BY <1>6, <1>7

LEMMA BeginKept ==
    ASSUME FsInv, BeginCall \/ Look
    PROVE  Kept
  <1>1. /\ UNCHANGED <<table, inodes, disk, deleted, device, ci, halted, failures>>
        /\ call.at \in {"idle", "list", "read"}
        /\ call'.at \in {"idle", "load", "load_inodes"}
        /\ call'.at = "load" => call'.op # "create"
        /\ call'.sector = 0
    <2>1. CASE BeginCall
      <3>1. PICK op \in Calls, path \in Paths \cup {<<>>}, step \in {"load", "load_inodes"} :
               Begin(op, path, step) /\ (step = "load" => op # "create")
        BY <2>1 DEF BeginCall, Calls
      <3>2. call' = [op |-> op, path |-> path, at |-> step, sector |-> 0, inode |-> 0,
                     entry |-> NotFound]
        BY <3>1 DEF Begin, Idle, Off
      <3>3. call.at = "idle" /\ UNCHANGED <<table, inodes, disk, deleted, device, ci, halted, failures>>
        BY <3>1 DEF Begin, At
      <3> QED BY <3>1, <3>2, <3>3
    <2>2. CASE Look
      <3>1. call'.at = "idle" /\ call'.sector = 0
        BY <2>2, ReturnSets DEF Look, Return, Idle, Off
      <3> QED BY <2>2, <3>1 DEF Look, At
    <2> QED BY <2>1, <2>2
  <1>2. Reliable' = Reliable /\ Working' = Working
    BY <1>1, NoCommand
  <1>3. Reliable' => DiskOK'
    BY <1>1, <1>2, DiskSame
  <1>4. ASSUME Working' PROVE WorkOK'
    <2>1. disk'.signed
      BY <1>1, <1>2, <1>4 DEF FsInv, WorkOK
    <2>2. LoadedTo(call.sector)' /\ InodesTo(call.sector)'
      BY <1>1, ArabFSAssumption DEF LoadedTo, InodesTo
    <2> QED BY <1>1, <2>1, <2>2 DEF WorkOK, At, Calls
  <1> QED BY <1>3, <1>4 DEF Kept

\* One sector more has been read.
LEMMA SectorLoaded ==
    ASSUME LoadedTo(call.sector), UNCHANGED disk, call.sector \in Nat,
           table' = TakeSector(table, disk.entries, call.sector)
    PROVE  \A e \in Entries, f \in Fields :
              SectorOf[e][f] < call.sector + 1 => table'[e][f] = disk'.entries[e][f]
  <1> SUFFICES ASSUME NEW e \in Entries, NEW f \in Fields, SectorOf[e][f] < call.sector + 1
               PROVE  table'[e][f] = disk'.entries[e][f]
    OBVIOUS
  <1>1. table'[e][f] = IF SectorOf[e][f] = call.sector THEN disk.entries[e][f] ELSE table[e][f]
    BY DEF TakeSector
  <1>2. SectorOf[e][f] \in Nat
    BY ArabFSAssumption
  <1>3. SectorOf[e][f] = call.sector \/ SectorOf[e][f] < call.sector
    BY <1>2
  <1> QED BY <1>1, <1>3 DEF LoadedTo

LEMMA InodesLoaded ==
    ASSUME InodesTo(call.sector), UNCHANGED disk, call.sector \in Nat,
           inodes' = TakeInodes(inodes, disk.inodes, call.sector)
    PROVE  \A i \in Inodes : InodeSectorOf[i] < call.sector + 1 => inodes'[i] = disk'.inodes[i]
  <1> SUFFICES ASSUME NEW i \in Inodes, InodeSectorOf[i] < call.sector + 1
               PROVE  inodes'[i] = disk'.inodes[i]
    OBVIOUS
  <1>1. inodes'[i] = IF InodeSectorOf[i] = call.sector THEN disk.inodes[i] ELSE inodes[i]
    BY DEF TakeInodes
  <1>2. InodeSectorOf[i] \in Nat
    BY ArabFSAssumption
  <1>3. InodeSectorOf[i] = call.sector \/ InodeSectorOf[i] < call.sector
    BY <1>2
  <1> QED BY <1>1, <1>3 DEF InodesTo

LEMMA LoadKept ==
    ASSUME FsInv, Load
    PROVE  Kept
  <1>1. TypeInv /\ CallOK /\ failures \in Nat /\ call.sector \in Nat
    BY DEF FsInv, TypeInv, CallOK
  <1>2. CASE At("load_inodes") /\ LoadInodes("load")
    <2>1. PICK ok \in BOOLEAN :
             /\ Command(ok)
             /\ inodes' = IF ok THEN TakeInodes(inodes, disk.inodes, call.sector) ELSE inodes
      BY <1>2 DEF LoadInodes
    <2>2. UNCHANGED <<table, disk, deleted>> /\ NextSector(InodeSectors, "load")
      BY <1>2 DEF LoadInodes
    <2>3. (Reliable' => Reliable) /\ (Working' => ok /\ Working)
      BY <1>1, <2>1, CommandEffect
    <2>4. ASSUME Working' PROVE WorkOK'
      <3>1. disk'.signed /\ InodesTo(call.sector)
        BY <1>2, <2>2, <2>3, <2>4 DEF FsInv, WorkOK, At
      <3>2. \A i \in Inodes : InodeSectorOf[i] < call.sector + 1 => inodes'[i] = disk'.inodes[i]
        BY <1>1, <2>1, <2>2, <2>3, <2>4, <3>1, InodesLoaded
      <3>3. CASE call.sector + 1 < InodeSectors
        <4>1. call'.at = "load_inodes" /\ call'.sector = call.sector + 1
          BY <1>1, <1>2, <2>2, <3>3, NextSets DEF At
        <4>2. InodesTo(call.sector)'
          BY <3>2, <4>1 DEF InodesTo
        <4> QED BY <3>1, <4>1, <4>2 DEF WorkOK, At, Calls
      <3>4. CASE ~ (call.sector + 1 < InodeSectors)
        <4>1. Goto("load")
          BY <1>1, <2>2, <3>4, NextSets
        <4>2. call'.at = "load" /\ call'.sector = 0
          BY <1>1, <4>1, GotoSets
        <4>3. InodesTo(InodeSectors)'
          <5> SUFFICES ASSUME NEW i \in Inodes, InodeSectorOf[i] < InodeSectors
                       PROVE  inodes'[i] = disk'.inodes[i]
            BY DEF InodesTo
          <5>1. InodeSectorOf[i] \in Nat /\ InodeSectors \in Nat
            BY ArabFSAssumption
          <5>2. InodeSectorOf[i] < call.sector + 1
            BY <1>1, <3>4, <5>1
          <5> QED BY <3>2, <5>2
        <4>4. LoadedTo(call.sector)'
          BY <4>2, ArabFSAssumption DEF LoadedTo
        <4> QED BY <3>1, <4>2, <4>3, <4>4 DEF WorkOK, At, Calls
      <3> QED BY <3>3, <3>4
    <2>5. Reliable' => DiskOK'
      BY <2>2, <2>3, DiskSame
    <2> QED BY <2>4, <2>5 DEF Kept
  <1>3. CASE At("load") /\ LoadTable(call.op)
    <2>1. PICK ok \in BOOLEAN :
             /\ Command(ok)
             /\ table' = IF ok THEN TakeSector(table, disk.entries, call.sector) ELSE table
      BY <1>3 DEF LoadTable
    <2>2. UNCHANGED <<inodes, disk, deleted>> /\ NextSector(Sectors, call.op) /\ call.op \in Calls
      BY <1>1, <1>3 DEF LoadTable, CallOK
    <2>3. (Reliable' => Reliable) /\ (Working' => ok /\ Working)
      BY <1>1, <2>1, CommandEffect
    <2>4. ASSUME Working' PROVE WorkOK'
      <3>1. /\ disk'.signed /\ LoadedTo(call.sector)
            /\ call.op = "create" => InodesTo(InodeSectors)
        BY <1>3, <2>2, <2>3, <2>4 DEF FsInv, WorkOK, At
      <3>2. \A e \in Entries, f \in Fields :
               SectorOf[e][f] < call.sector + 1 => table'[e][f] = disk'.entries[e][f]
        BY <1>1, <2>1, <2>2, <2>3, <2>4, <3>1, SectorLoaded
      <3>3. call.op = "create" => InodesTo(InodeSectors)'
        BY <2>2, <3>1 DEF InodesTo
      <3>4. CASE call.sector + 1 < Sectors
        <4>1. call'.at = "load" /\ call'.sector = call.sector + 1 /\ call'.op = call.op
          BY <1>1, <1>3, <2>2, <3>4, NextSets DEF At
        <4>2. LoadedTo(call.sector)'
          BY <3>2, <4>1 DEF LoadedTo
        <4> QED BY <3>1, <3>3, <4>1, <4>2 DEF WorkOK, At, Calls
      <3>5. CASE ~ (call.sector + 1 < Sectors)
        <4>1. Goto(call.op)
          BY <1>1, <2>2, <3>5, NextSets DEF Calls
        <4>2. call'.at = call.op
          BY <1>1, <4>1, GotoSets
        <4>3. LoadedTo(Sectors)'
          <5> SUFFICES ASSUME NEW e \in Entries, NEW f \in Fields, SectorOf[e][f] < Sectors
                       PROVE  table'[e][f] = disk'.entries[e][f]
            BY DEF LoadedTo
          <5>1. SectorOf[e][f] \in Nat /\ Sectors \in Nat
            BY ArabFSAssumption
          <5>2. SectorOf[e][f] < call.sector + 1
            BY <1>1, <3>5, <5>1
          <5> QED BY <3>2, <5>2
        <4> QED BY <2>2, <3>1, <3>3, <4>2, <4>3 DEF WorkOK, At, Calls
      <3> QED BY <3>4, <3>5
    <2>5. Reliable' => DiskOK'
      BY <2>2, <2>3, DiskSame
    <2> QED BY <2>4, <2>5 DEF Kept
  <1> QED BY <1>2, <1>3 DEF Load
\* A free entry is taken: no file was there.
LEMMA FreeEntry ==
    ASSUME FreeEntries # {}
    PROVE  Min(FreeEntries) \in Entries /\ ~ table[Min(FreeEntries)].used
  <1>1. FreeEntries \subseteq Nat
    BY ArabFSAssumption DEF FreeEntries, Entries
  <1> QED BY <1>1, MinOfNat DEF FreeEntries

\* What a file is depends on three words.
LEMMA SameFile ==
    ASSUME NEW x, NEW y, x.used = y.used, x.dir = y.dir, x.inode = y.inode
    PROVE  IsFile(x) = IsFile(y)
  BY DEF IsFile

\* A call that has changed entry n of the table it has loaded, n not the root.
LEMMA ChangeKept ==
    ASSUME FsInv, LoadedTo(Sectors), NEW n, n # 0,
           \A e \in Entries : e # n => table'[e] = table[e],
           UNCHANGED <<inodes, disk, deleted, device, ci, halted, failures>>,
           call'.at = "save",
           Working => disk.signed,
           Working => \/ /\ call'.op \in {"mkdir", "create"}
                         /\ n \in Entries => ~ table[n].used /\ call'.entry = n
                      \/ /\ call'.op \in {"rmdir", "delete"}
                         /\ n \in Entries =>
                              /\ table'[n].used = FALSE
                              /\ \A f \in Fields : f # "used" => table'[n][f] = table[n][f]
                         /\ table[n].dir => ~ \E c \in Entries : table[c].used /\ table[c].parent = n,
           Working /\ ~ deleted /\ n \in Entries /\ IsFile(table'[n]) =>
                /\ disk.inodes[table'[n].inode]
                /\ \A e \in Whole : IsFile(disk.entries[e]) => disk.entries[e].inode # table'[n].inode
    PROVE  Kept
  <1>2. Reliable' = Reliable /\ Working' = Working
    BY NoCommand
  <1>3. Reliable' => DiskOK'
    BY <1>2, DiskSame
  <1>4. ASSUME Working PROVE WorkOK'
    <2>1. Reliable /\ DiskOK /\ disk.signed
      BY <1>4 DEF Working, FsInv
    <2>2. \A e \in Entries, f \in Fields : OnDisk(e, f) => table[e][f] = disk.entries[e][f]
      BY DEF LoadedTo, OnDisk
    <2>3. 0 \in Entries /\ table'[0] = Root
      BY <1>4, <2>1, RootLoaded
    <2>4. {"used", "dir", "parent", "inode"} \subseteq Fields
      BY DEF Fields
    <2>5. ASSUME call'.op \in {"mkdir", "create"} PROVE Added'
      <3>1. n \in Entries => ~ table[n].used /\ call'.entry = n
        BY <1>4, <2>5
      <3>2. ASSUME NEW e \in Entries, NEW f \in Fields, OnDisk(e, f),
                   table'[e][f] # disk.entries[e][f]
            PROVE  e = call'.entry /\ ~ disk.entries[e].used
        <4>1. e = n
          BY <2>2, <3>2
        <4>2. ~ disk.entries[e].used
          BY <2>1, <2>2, <2>4, <3>1, <4>1, UsedOnDisk
        <4> QED BY <3>1, <4>1, <4>2
      <3> QED BY <3>2 DEF Added, OnDisk
    <2>6. ASSUME call'.op \in {"rmdir", "delete"} PROVE Removed'
      <3>1. /\ n \in Entries => /\ table'[n].used = FALSE
                                /\ \A f \in Fields : f # "used" => table'[n][f] = table[n][f]
            /\ table[n].dir => ~ \E c \in Entries : table[c].used /\ table[c].parent = n
        BY <1>4, <2>6
      <3>2. ASSUME NEW e \in Entries, NEW f \in Fields, OnDisk(e, f),
                   table'[e][f] # disk.entries[e][f]
            PROVE  /\ f = "used" /\ table'[e].used = FALSE
                   /\ disk.entries[e].dir =>
                        ~ \E c \in Entries : disk.entries[c].used /\ disk.entries[c].parent = e
        <4>1. e = n /\ f = "used" /\ table'[e].used = FALSE
          BY <2>2, <3>1, <3>2
        <4>2. ASSUME disk.entries[e].dir, NEW c \in Entries, disk.entries[c].used,
                     disk.entries[c].parent = e
              PROVE  FALSE
          <5>1. table[e].dir
            BY <2>1, <2>2, <2>4, <4>2, UsedOnDisk
          <5>2. table[c].used /\ table[c].parent = e
            BY <2>1, <2>2, <2>4, <4>1, <4>2, UsedOnDisk
          <5> QED BY <3>1, <4>1, <5>1, <5>2
        <4> QED BY <4>1, <4>2
      <3> QED BY <3>2 DEF Removed, OnDisk
    <2>7. ASSUME ~ deleted PROVE Creating'
      <3>1. FilesIn(disk.entries, disk.inodes)
        BY <2>1, <2>7 DEF DiskOK
      <3> DEFINE Same(x, y) == x.used = y.used /\ x.dir = y.dir /\ x.inode = y.inode
      <3>2. ASSUME NEW e \in Whole, OnDisk(e, "used"), NEW y \in {table'[e], disk.entries[e]}
            PROVE  e \in Entries /\ (Same(y, disk.entries[e]) \/ (y = table'[n] /\ e = n))
        <4>1. e \in Entries /\ OnDisk(e, "dir") /\ OnDisk(e, "inode")
          BY <3>2 DEF Whole, OnDisk
        <4>2. Same(table[e], disk.entries[e])
          BY <2>2, <2>4, <3>2, <4>1
        <4> QED BY <3>2, <4>1, <4>2
      <3>3. \A x, y : Same(x, y) => IsFile(x) = IsFile(y)
        BY SameFile
      <3>4. ASSUME NEW e \in Whole, NEW f \in Whole, OnDisk(e, "used"), OnDisk(f, "used"),
                   NEW y \in {table'[e], disk.entries[e]}, NEW z \in {table'[f], disk.entries[f]},
                   IsFile(y)
            PROVE  disk.inodes[y.inode] /\ (IsFile(z) /\ z.inode = y.inode => e = f)
        <4>1. e \in Entries /\ (Same(y, disk.entries[e]) \/ (y = table'[n] /\ e = n))
          BY <3>2, <3>4
        <4>2. f \in Entries /\ (Same(z, disk.entries[f]) \/ (z = table'[n] /\ f = n))
          BY <3>2, <3>4
        <4>3. Same(y, disk.entries[e]) => /\ IsFile(disk.entries[e])
                                          /\ y.inode = disk.entries[e].inode
          BY <3>3, <3>4
        <4>4. IsFile(z) /\ Same(z, disk.entries[f]) => /\ IsFile(disk.entries[f])
                                                       /\ z.inode = disk.entries[f].inode
          BY <3>3
        <4> HIDE DEF Same
        <4>5. disk.inodes[y.inode]
          BY <1>4, <2>7, <3>1, <3>4, <4>1, <4>3 DEF FilesIn
        <4>6. ASSUME IsFile(z), z.inode = y.inode PROVE e = f
          BY <1>4, <2>7, <3>1, <3>4, <4>1, <4>2, <4>3, <4>4, <4>6 DEF FilesIn
        <4> QED BY <4>5, <4>6
      <3> QED BY <3>4 DEF Creating, OnDisk
    <2> QED BY <2>1, <2>3, <2>5, <2>6, <2>7 DEF WorkOK, At, Calls
  <1> QED BY <1>2, <1>3, <1>4 DEF Kept

\* A step without a command that returns to the caller.
LEMMA ReturnKept ==
    ASSUME FsInv, Return, call.at \notin {"off", "check", "format", "sign"},
           UNCHANGED <<disk, deleted, device, ci, halted, failures>>
    PROVE  Kept
  <1>1. call'.at = "idle"
    BY ReturnSets
  <1>2. Reliable' = Reliable /\ Working' = Working
    BY NoCommand
  <1>3. Working => disk.signed
    BY DEF FsInv, WorkOK
  <1> QED BY <1>1, <1>2, <1>3, QuietKept DEF Quiet

LEMMA MkdirKept ==
    ASSUME FsInv, Mkdir
    PROVE  Kept
  <1> DEFINE stop == Parent = NotFound \/ Matches(table, NameIn(call.path), Parent) # {}
                        \/ FreeEntries = {}
             n == Min(FreeEntries)
             x == NewEntry(table[n], TRUE, table[n].inode)
  <1>1. /\ call.at = "mkdir" /\ CallOK /\ DOMAIN table = Entries
        /\ UNCHANGED <<inodes, disk, deleted, device, ci, halted, failures>>
    BY DEF Mkdir, At, FsInv, TypeInv, Shaped
  <1>2. CASE stop
    BY <1>1, <1>2, ReturnKept DEF Mkdir
  <1>3. CASE ~ stop
    <2>1. /\ table' = [table EXCEPT ![n] = x] /\ FreeEntries # {}
          /\ call' = [call EXCEPT !.at = "save", !.entry = n]
      BY <1>3 DEF Mkdir
    <2>2. n \in Entries /\ ~ table[n].used
      BY <2>1, FreeEntry
    <2>3. call'.at = "save" /\ call'.op = "mkdir" /\ call'.entry = n
      BY <1>1, <2>1 DEF CallOK, Calls
    <2>4. Working => LoadedTo(Sectors) /\ disk.signed
      BY <1>1 DEF FsInv, WorkOK, Calls
    <2>5. ~ IsFile(x)
      BY DEF IsFile, NewEntry
    <2>6. ASSUME ~ Working PROVE Kept
      <3>1. Reliable' = Reliable /\ Working' = Working
        BY <1>1, NoCommand
      <3> QED BY <1>1, <2>6, <3>1, DiskSame DEF Kept
    <2>7. ASSUME Working PROVE Kept
      <3>1. n # 0
        BY <2>2, <2>4, <2>7, RootLoaded
      <3> HIDE DEF x, n
      <3>2. table'[n] = x /\ \A e \in Entries : e # n => table'[e] = table[e]
        BY <1>1, <2>1, <2>2
      <3> QED BY <1>1, <2>2, <2>3, <2>4, <2>5, <2>7, <3>1, <3>2, ChangeKept
    <2> QED BY <2>6, <2>7
  <1> QED BY <1>2, <1>3

\* An entry's mark is taken away.
LEMMA MarkTaken ==
    ASSUME Shaped(table), NEW n, table' = [table EXCEPT ![n].used = FALSE]
    PROVE  /\ \A e \in Entries : e # n => table'[e] = table[e]
           /\ n \in Entries => /\ table'[n].used = FALSE /\ ~ IsFile(table'[n])
                              /\ \A f \in Fields : f # "used" => table'[n][f] = table[n][f]
  <1>1. /\ \A e \in Entries : e # n => table'[e] = table[e]
        /\ n \in Entries => table'[n] = [table[n] EXCEPT !.used = FALSE]
    BY UnmarkedShape
  <1>2. ASSUME n \in Entries
        PROVE  /\ table'[n].used = FALSE
               /\ \A f \in Fields : f # "used" => table'[n][f] = table[n][f]
    <2>1. table[n] = [f \in Fields |-> table[n][f]]
      BY <1>2 DEF Shaped
    <2> DEFINE x == table[n]
               y == [x EXCEPT !.used = FALSE]
    <2>2. table'[n] = y
      BY <1>1, <1>2
    <2>3. x = [f \in Fields |-> x[f]]
      BY <2>1
    <2> HIDE DEF x
    <2>4. y.used = FALSE /\ \A f \in Fields : f # "used" => y[f] = x[f]
      BY <2>3, Unmarked
    <2> HIDE DEF y
    <2> QED BY <2>2, <2>4 DEF x
  <1> QED BY <1>1, <1>2 DEF IsFile

LEMMA RmdirKept ==
    ASSUME FsInv, Rmdir
    PROVE  Kept
  <1> DEFINE stop == \/ Target = NotFound
                     \/ ~ table[Target].dir \/ Target = 0
                     \/ \E e \in Entries : table[e].used /\ table[e].parent = Target
             n == Target
  <1>1. /\ call.at = "rmdir" /\ CallOK /\ Shaped(table)
        /\ UNCHANGED <<inodes, disk, deleted, device, ci, halted, failures>>
    BY DEF Rmdir, At, FsInv, TypeInv
  <1>2. CASE stop
    <2>1. Return
      BY <1>2 DEF Rmdir
    <2> QED BY <1>1, <2>1, ReturnKept
  <1>3. CASE ~ stop
    <2>1. table' = [table EXCEPT ![n].used = FALSE] /\ Goto("save")
      BY <1>3 DEF Rmdir
    <2>2. n # 0 /\ ~ \E c \in Entries : table[c].used /\ table[c].parent = n
      BY <1>3
    <2>3. call'.at = "save" /\ call'.op = "rmdir"
      BY <1>1, <2>1, GotoSets DEF CallOK, Calls
    <2>4. Working => LoadedTo(Sectors) /\ disk.signed
      BY <1>1 DEF FsInv, WorkOK, Calls
    <2>5. ASSUME ~ Working PROVE Kept
      <3>1. Reliable' = Reliable /\ Working' = Working
        BY <1>1, NoCommand
      <3> QED BY <1>1, <2>5, <3>1, DiskSame DEF Kept
    <2> HIDE DEF n
    <2>6. /\ \A e \in Entries : e # n => table'[e] = table[e]
          /\ n \in Entries => /\ table'[n].used = FALSE /\ ~ IsFile(table'[n])
                             /\ \A f \in Fields : f # "used" => table'[n][f] = table[n][f]
      BY <1>1, <2>1, MarkTaken
    <2>7. ASSUME Working PROVE Kept
      BY <1>1, <2>2, <2>3, <2>4, <2>6, <2>7, ChangeKept
    <2> QED BY <2>5, <2>7
  <1> QED BY <1>2, <1>3
---------------------------------------------------------------------------
(* The steps on the inodes.                                                *)

\* While every file's inode stays in use on the disk, the files stay as they are.
LEMMA BitsKept ==
    ASSUME FsInv, Reliable, ~ deleted' => ~ deleted,
           disk'.signed = disk.signed, disk'.entries = disk.entries,
           ~ deleted' => \A i \in Lasting : disk.inodes[i] => disk'.inodes[i]
    PROVE  DiskOK'
  <1>1. DiskOK
    BY DEF FsInv
  <1>2. ASSUME ~ deleted' PROVE FilesIn(disk'.entries, disk'.inodes)
    <2>1. FilesIn(disk.entries, disk.inodes)
      BY <1>1, <1>2 DEF DiskOK
    <2>2. ASSUME NEW e \in Whole, IsFile(disk.entries[e])
          PROVE  disk.entries[e].inode \in Lasting
      BY <2>2 DEF IsFile
    <2> QED BY <1>2, <2>1, <2>2 DEF FilesIn
  <1> QED BY <1>1, <1>2 DEF DiskOK, OnDisk

\* A lasting inode lies in a sector of the inode table.
LEMMA LastingInodes ==
    /\ Lasting \subseteq Inodes
    /\ \A i \in Lasting : InodeSectorOf[i] < InodeSectors
  BY DEF Lasting

LEMMA CreateInodeKept ==
    ASSUME FsInv, CreateInode
    PROVE  Kept
  <1> DEFINE n == Min(FreeInodes)
  <1>1. /\ call.at = "create" /\ CallOK /\ DOMAIN inodes = Inodes
        /\ UNCHANGED <<table, disk, deleted, device, ci, halted, failures>>
    BY DEF CreateInode, At, FsInv, TypeInv
  <1>2. CASE Return
    BY <1>1, <1>2, ReturnKept
  <1>3. CASE ~ Return
    <2>1. /\ FreeInodes # {}
          /\ inodes' = [inodes EXCEPT ![n] = TRUE]
          /\ call' = [call EXCEPT !.at = "data", !.inode = n]
      BY <1>3 DEF CreateInode
    <2>2. n \in Inodes /\ ~ inodes[n]
      <3>1. FreeInodes \subseteq Nat
        BY ArabFSAssumption DEF FreeInodes, Inodes
      <3> QED BY <2>1, <3>1, MinOfNat DEF FreeInodes
    <2> HIDE DEF n
    <2>3. call'.at = "data" /\ call'.inode = n
      BY <1>1, <2>1 DEF CallOK
    <2>4. Reliable' = Reliable /\ Working' = Working
      BY <1>1, NoCommand
    <2>5. Working => LoadedTo(Sectors) /\ disk.signed /\ InodesTo(InodeSectors)
      BY <1>1 DEF FsInv, WorkOK, Calls, At
    <2>6. ASSUME Working PROVE WorkOK'
      <3>1. inodes'[call'.inode]
        BY <1>1, <2>1, <2>2, <2>3
      <3>2. \A i \in Lasting : inodes[i] = disk.inodes[i]
        BY <2>5, <2>6, LastingInodes DEF InodesTo
      <3>3. \A i \in Lasting : disk'.inodes[i] => inodes'[i]
        BY <1>1, <2>1, <2>2, <3>2, LastingInodes
      <3>4. ASSUME ~ deleted PROVE OwnInode'
        <4>1. FilesIn(disk.entries, disk.inodes)
          BY <2>6, <3>4 DEF FsInv, DiskOK, Working
        <4>2. ASSUME NEW e \in Whole, IsFile(disk.entries[e]) PROVE disk.entries[e].inode # n
          <5>1. disk.entries[e].inode \in Lasting /\ disk.inodes[disk.entries[e].inode]
            BY <4>1, <4>2 DEF FilesIn, IsFile
          <5> QED BY <2>2, <3>2, <5>1
        <4> QED BY <1>1, <2>3, <4>2 DEF OwnInode
      <3>5. LoadedTo(Sectors)' /\ disk'.signed
        BY <1>1, <2>5, <2>6 DEF LoadedTo
      <3> QED BY <1>1, <2>3, <3>1, <3>3, <3>4, <3>5 DEF WorkOK, At, Calls
    <2>7. Reliable' => DiskOK'
      BY <1>1, <2>4, DiskSame
    <2> QED BY <2>4, <2>6, <2>7 DEF Kept
  <1> QED BY <1>2, <1>3

LEMMA WriteDataKept ==
    ASSUME FsInv, WriteData
    PROVE  Kept
  <1>1. /\ call.at = "data" /\ CallOK /\ TypeInv /\ UNCHANGED <<table, inodes, deleted>>
        /\ call'.at = "save_inodes" /\ call'.inode = call.inode /\ call'.sector = 0
    BY GotoSets DEF WriteData, At, FsInv, TypeInv
  <1>2. PICK ok \in BOOLEAN, said \in [Overlaid -> BOOLEAN] :
          /\ Command(ok)
          /\ disk' = IF ok THEN [disk EXCEPT !.inodes = [i \in Inodes |->
                                   IF i \in Overlaid THEN said[i] ELSE @[i]]] ELSE disk
    BY DEF WriteData
  <1>3. (Reliable' => Reliable) /\ (Working' => ok /\ Working)
    BY <1>1, <1>2, CommandEffect DEF TypeInv
  <1>4. /\ disk'.signed = disk.signed /\ disk'.entries = disk.entries
        /\ \A i \in Inodes \ Overlaid : disk'.inodes[i] = disk.inodes[i]
    BY <1>1, <1>2 DEF TypeInv
  <1>5. \A i \in Lasting : disk'.inodes[i] = disk.inodes[i]
    BY <1>4 DEF Lasting
  <1>6. Reliable' => DiskOK'
    BY <1>1, <1>3, <1>4, <1>5, BitsKept
  <1>7. ASSUME Working' PROVE WorkOK'
    <2>1. LoadedTo(Sectors)' /\ disk'.signed
      BY <1>1, <1>3, <1>4, <1>7 DEF FsInv, WorkOK, LoadedTo
    <2>2. /\ inodes'[call'.inode] /\ \A i \in Lasting : disk'.inodes[i] => inodes'[i]
          /\ ~ deleted => OwnInode
      BY <1>1, <1>3, <1>5, <1>7 DEF FsInv, WorkOK
    <2>3. ~ deleted' => OwnInode'
      BY <1>1, <1>4, <2>2 DEF OwnInode
    <2>4. InodeSectorOf[call.inode] \in Nat
      BY <1>1, ArabFSAssumption DEF CallOK
    <2> QED BY <1>1, <2>1, <2>2, <2>3, <2>4 DEF WorkOK, At, Calls
  <1> QED BY <1>6, <1>7 DEF Kept

\* What saving one sector of the inodes does.
LEMMA InodesSaved ==
    ASSUME TypeInv, NEW next, SaveInodes(next)
    PROVE  \E ok \in BOOLEAN :
              /\ Reliable' => Reliable
              /\ Working' => ok /\ Working
              /\ ok /\ Reliable => Working
              /\ ~ ok => disk' = disk
              /\ disk'.signed = disk.signed /\ disk'.entries = disk.entries
              /\ ok => \A i \in Inodes : disk'.inodes[i] =
                          IF InodeSectorOf[i] = call.sector THEN inodes[i] ELSE disk.inodes[i]
  <1>1. PICK ok \in BOOLEAN :
          /\ Command(ok)
          /\ disk' = IF ok THEN [disk EXCEPT !.inodes = TakeInodes(@, inodes, call.sector)]
                     ELSE disk
    BY DEF SaveInodes
  <1>2. /\ Reliable' => Reliable
        /\ ok /\ Reliable => Working
        /\ Working' => ok /\ Working
    BY <1>1, CommandEffect DEF TypeInv
  <1>3. disk'.signed = disk.signed /\ disk'.entries = disk.entries
    BY <1>1 DEF TypeInv
  <1>4. ok => disk'.inodes = TakeInodes(disk.inodes, inodes, call.sector)
    BY <1>1 DEF TypeInv
  <1>5. ok => \A i \in Inodes : disk'.inodes[i] =
                  IF InodeSectorOf[i] = call.sector THEN inodes[i] ELSE disk.inodes[i]
    BY <1>4 DEF TakeInodes
  <1> QED BY <1>1, <1>2, <1>3, <1>5

LEMMA SaveCreatedKept ==
    ASSUME FsInv, SaveCreated
    PROVE  Kept
  <1>1. /\ call.at = "save_inodes" /\ CallOK /\ TypeInv /\ UNCHANGED <<table, inodes, deleted>>
        /\ NextSector(InodeSectors, "add_entry") /\ SaveInodes("add_entry")
        /\ call.sector \in Nat /\ call.inode \in Inodes
    BY DEF SaveCreated, SaveInodes, At, FsInv, TypeInv, CallOK
  <1>2. PICK ok \in BOOLEAN :
              /\ Reliable' => Reliable
              /\ Working' => ok /\ Working
              /\ ok /\ Reliable => Working
              /\ ~ ok => disk' = disk
              /\ disk'.signed = disk.signed /\ disk'.entries = disk.entries
              /\ ok => \A i \in Inodes : disk'.inodes[i] =
                          IF InodeSectorOf[i] = call.sector THEN inodes[i] ELSE disk.inodes[i]
    BY <1>1, InodesSaved
  <1>3. Working => /\ inodes[call.inode] /\ LoadedTo(Sectors) /\ disk.signed
                   /\ \A i \in Lasting : disk.inodes[i] => inodes[i]
                   /\ InodeSectorOf[call.inode] < call.sector => disk.inodes[call.inode]
                   /\ ~ deleted => OwnInode
    BY <1>1 DEF FsInv, WorkOK, At
  <1>4. ASSUME Reliable' PROVE DiskOK'
    <2>1. CASE ok
      <3>1. \A i \in Lasting : disk.inodes[i] => disk'.inodes[i]
        BY <1>2, <1>3, <1>4, <2>1, LastingInodes
      <3> QED BY <1>1, <1>2, <1>4, <3>1, BitsKept
    <2>2. CASE ~ ok
      BY <1>1, <1>2, <1>4, <2>2, DiskSame
    <2> QED BY <2>1, <2>2
  <1>5. ASSUME Working' PROVE WorkOK'
    <2>1. LoadedTo(Sectors)' /\ disk'.signed /\ inodes'[call.inode]
      BY <1>1, <1>2, <1>3, <1>5 DEF LoadedTo
    <2>2. ~ deleted => OwnInode
      BY <1>2, <1>3, <1>5
    <2>3. \A i \in Lasting : disk'.inodes[i] => inodes'[i]
      BY <1>1, <1>2, <1>3, <1>5, LastingInodes
    <2>4. InodeSectorOf[call.inode] < call.sector + 1 => disk'.inodes[call.inode]
      <3>1. InodeSectorOf[call.inode] \in Nat
        BY <1>1, ArabFSAssumption
      <3>2. CASE InodeSectorOf[call.inode] = call.sector
        BY <1>1, <1>2, <1>3, <1>5, <3>2
      <3>3. CASE InodeSectorOf[call.inode] < call.sector
        BY <1>1, <1>2, <1>3, <1>5, <3>1, <3>3
      <3> QED BY <1>1, <3>1, <3>2, <3>3
    <2>5. CASE call.sector + 1 < InodeSectors
      <3>1. /\ call'.at = "save_inodes" /\ call'.inode = call.inode
            /\ call'.sector = call.sector + 1
        BY <1>1, <2>5, NextSets
      <3>2. ~ deleted' => OwnInode'
        BY <1>1, <1>2, <2>2, <3>1 DEF OwnInode
      <3> QED BY <2>1, <2>3, <2>4, <3>1, <3>2 DEF WorkOK, At, Calls
    <2>6. CASE ~ (call.sector + 1 < InodeSectors)
      <3>1. Goto("add_entry")
        BY <1>1, <2>6, NextSets
      <3>2. call'.at = "add_entry" /\ call'.inode = call.inode
        BY <1>1, <3>1, GotoSets
      <3>3. ASSUME call.inode \in Lasting PROVE disk'.inodes[call.inode]
        <4>1. InodeSectorOf[call.inode] < InodeSectors /\ InodeSectorOf[call.inode] \in Nat
              /\ InodeSectors \in Nat
          BY <1>1, <3>3, LastingInodes, ArabFSAssumption
        <4>2. InodeSectorOf[call.inode] < call.sector + 1
          BY <1>1, <2>6, <4>1
        <4> QED BY <2>4, <4>2
      <3>4. ~ deleted' => OwnInode'
        BY <1>1, <1>2, <2>2, <3>2 DEF OwnInode
      <3> QED BY <2>1, <3>2, <3>3, <3>4 DEF WorkOK, At, Calls
    <2> QED BY <2>5, <2>6
  <1> QED BY <1>4, <1>5 DEF Kept

LEMMA AddEntryKept ==
    ASSUME FsInv, AddEntry
    PROVE  Kept
  <1>1. /\ call.at = "add_entry" /\ CallOK /\ DOMAIN table = Entries
        /\ UNCHANGED <<inodes, disk, deleted, device, ci, halted, failures>>
        /\ call.op = "create" /\ DOMAIN call = {"op", "path", "at", "sector", "inode", "entry"}
    BY DEF AddEntry, At, FsInv, TypeInv, CallOK, Shaped
  <1>2. Working => /\ LoadedTo(Sectors) /\ disk.signed
                   /\ call.inode \in Lasting => disk.inodes[call.inode]
                   /\ ~ deleted => OwnInode
    BY <1>1 DEF FsInv, WorkOK, At
  <1>3. ASSUME ~ Working PROVE Kept
    <2>1. Reliable' = Reliable /\ Working' = Working
      BY <1>1, NoCommand
    <2> QED BY <1>1, <1>3, <2>1, DiskSame DEF Kept
  <1>4. ASSUME Working, FreeEntries = {} PROVE Kept
    <2>1. NotFound \notin Entries /\ NotFound # 0
      BY ArabFSAssumption DEF NotFound, Entries
    <2>2. Goto("save") /\ UNCHANGED table
      BY <1>4 DEF AddEntry
    <2>3. call'.at = "save" /\ call'.op = "create"
      BY <1>1, <2>2, GotoSets
    <2>4. \A e \in Entries : e # NotFound => table'[e] = table[e]
      BY <2>2
    <2> QED BY <1>1, <1>2, <1>4, <2>1, <2>3, <2>4, ChangeKept
  <1>5. ASSUME Working, FreeEntries # {} PROVE Kept
    <2> DEFINE n == Min(FreeEntries)
               x == NewEntry(table[n], FALSE, call.inode)
    <2>1. n \in Entries /\ ~ table[n].used
      BY <1>5, FreeEntry
    <2>2. n # 0
      BY <1>2, <1>5, <2>1, RootLoaded
    <2>3. table' = [table EXCEPT ![n] = x] /\ call' = [call EXCEPT !.at = "save", !.entry = n]
      BY <1>5 DEF AddEntry
    <2>4. x.inode = call.inode
      BY DEF NewEntry
    <2> HIDE DEF x, n
    <2>5. call'.at = "save" /\ call'.op = "create" /\ call'.entry = n
      BY <1>1, <2>3
    <2>6. table'[n] = x /\ \A e \in Entries : e # n => table'[e] = table[e]
      BY <1>1, <2>1, <2>3
    <2>7. ~ deleted /\ IsFile(x) =>
             /\ disk.inodes[x.inode]
             /\ \A e \in Whole : IsFile(disk.entries[e]) => disk.entries[e].inode # x.inode
      BY <1>2, <1>5, <2>4 DEF OwnInode, IsFile
    <2> QED BY <1>1, <1>2, <1>5, <2>1, <2>2, <2>5, <2>6, <2>7, ChangeKept
  <1> QED BY <1>3, <1>4, <1>5

LEMMA DeleteInodeKept ==
    ASSUME FsInv, DeleteInode
    PROVE  Kept
  <1>1. /\ call.at = "delete" /\ CallOK
        /\ UNCHANGED <<table, disk, device, ci, halted, failures>>
    BY DEF DeleteInode, At, FsInv, TypeInv
  <1>2. CASE Return /\ UNCHANGED deleted
    BY <1>1, <1>2, ReturnKept
  <1>3. CASE ~ (Return /\ UNCHANGED deleted)
    <2>1. ~ table[Target].dir /\ deleted' /\ Goto("save_freed")
      BY <1>3 DEF DeleteInode
    <2>2. call'.at = "save_freed" /\ call'.path = call.path
      BY <1>1, <2>1, GotoSets
    <2>3. Reliable' = Reliable /\ Working' = Working
      BY <1>1, NoCommand
    <2>4. Reliable' => DiskOK'
      BY <1>1, <2>1, <2>3, DiskSame
    <2>5. ASSUME Working PROVE WorkOK'
      <3>1. LoadedTo(Sectors)' /\ disk'.signed
        BY <1>1, <2>5 DEF FsInv, WorkOK, Calls, LoadedTo
      <3>2. ~ table'[Target'].dir
        BY <1>1, <2>1, <2>2 DEF Target
      <3> QED BY <2>2, <3>1, <3>2 DEF WorkOK, At, Calls
    <2> QED BY <2>3, <2>4, <2>5 DEF Kept
  <1> QED BY <1>2, <1>3

LEMMA SaveFreedKept ==
    ASSUME FsInv, SaveFreed
    PROVE  Kept
  <1>1. /\ call.at = "save_freed" /\ CallOK /\ TypeInv /\ deleted
        /\ UNCHANGED <<table, inodes, deleted>> /\ SaveInodes("remove_entry")
        /\ NextSector(InodeSectors, "remove_entry")
    BY DEF SaveFreed, SaveInodes, At, FsInv, TypeInv, CallOK
  <1>2. call'.at \in {"save_freed", "remove_entry"} /\ call'.path = call.path
    <2>1. CASE call.sector + 1 < InodeSectors
      BY <1>1, <2>1, NextSets
    <2>2. CASE ~ (call.sector + 1 < InodeSectors)
      <3>1. Goto("remove_entry")
        BY <1>1, <2>2, NextSets
      <3> QED BY <1>1, <3>1, GotoSets
    <2> QED BY <2>1, <2>2
  <1>3. /\ Reliable' => Reliable
        /\ Working' => Working
        /\ disk'.signed = disk.signed /\ disk'.entries = disk.entries
    BY <1>1, InodesSaved
  <1>4. Reliable' => DiskOK'
    BY <1>1, <1>3, BitsKept
  <1>5. ASSUME Working' PROVE WorkOK'
    <2>1. LoadedTo(Sectors)' /\ disk'.signed /\ ~ table[Target].dir
      BY <1>1, <1>3, <1>5 DEF FsInv, WorkOK, LoadedTo
    <2>2. ~ table'[Target'].dir
      BY <1>1, <1>2, <2>1 DEF Target
    <2> QED BY <1>2, <2>1, <2>2 DEF WorkOK, At, Calls
  <1> QED BY <1>4, <1>5 DEF Kept

LEMMA RemoveEntryKept ==
    ASSUME FsInv, RemoveEntry
    PROVE  Kept
  <1> DEFINE n == Target
  <1>1. /\ call.at = "remove_entry" /\ CallOK /\ Shaped(table)
        /\ UNCHANGED <<inodes, disk, deleted, device, ci, halted, failures>>
        /\ table' = [table EXCEPT ![n].used = FALSE] /\ Goto("save")
    BY DEF RemoveEntry, At, FsInv, TypeInv
  <1>2. call'.at = "save" /\ call'.op = "delete"
    BY <1>1, GotoSets DEF CallOK
  <1>3. Working => LoadedTo(Sectors) /\ disk.signed /\ ~ table[n].dir
    BY <1>1 DEF FsInv, WorkOK
  <1> HIDE DEF n
  <1>4. ASSUME ~ Working PROVE Kept
    <2>1. Reliable' = Reliable /\ Working' = Working
      BY <1>1, NoCommand
    <2> QED BY <1>1, <1>4, <2>1, DiskSame DEF Kept
  <1>5. ASSUME Working PROVE Kept
    <2>1. n # 0
      BY <1>3, <1>5, RootLoaded
    <2>2. /\ \A e \in Entries : e # n => table'[e] = table[e]
          /\ n \in Entries => /\ table'[n].used = FALSE /\ ~ IsFile(table'[n])
                             /\ \A f \in Fields : f # "used" => table'[n][f] = table[n][f]
      BY <1>1, MarkTaken
    <2> QED BY <1>1, <1>2, <1>3, <1>5, <2>1, <2>2, ChangeKept
  <1> QED BY <1>4, <1>5
---------------------------------------------------------------------------
(* The steps on the entries on the disk.                                   *)

\* What saving one sector of the table does.
LEMMA SectorSaved ==
    ASSUME TypeInv, NEW next, SaveTable(next)
    PROVE  \E ok \in BOOLEAN :
              /\ Reliable' => Reliable
              /\ ok /\ Reliable => Working
              /\ Working' => ok /\ Working
              /\ ~ ok => disk' = disk
              /\ disk'.signed = disk.signed /\ disk'.inodes = disk.inodes
              /\ ok => \A e \in Entries : disk'.entries[e] = [f \in Fields |->
                          IF SectorOf[e][f] = call.sector THEN table[e][f] ELSE disk.entries[e][f]]
  <1>1. PICK ok \in BOOLEAN :
          /\ Command(ok)
          /\ disk' = IF ok THEN [disk EXCEPT !.entries = TakeSector(@, table, call.sector)]
                     ELSE disk
    BY DEF SaveTable
  <1>2. /\ Reliable' => Reliable
        /\ ok /\ Reliable => Working
        /\ Working' => ok /\ Working
    BY <1>1, CommandEffect DEF TypeInv
  <1>3. ok => disk'.entries = TakeSector(disk.entries, table, call.sector)
    BY <1>1 DEF TypeInv
  <1>4. ok => \A e \in Entries : disk'.entries[e] = [f \in Fields |->
                  IF SectorOf[e][f] = call.sector THEN table[e][f] ELSE disk.entries[e][f]]
    BY <1>3 DEF TakeSector
  <1>5. disk'.signed = disk.signed /\ disk'.inodes = disk.inodes
    BY <1>1 DEF TypeInv
  <1> QED BY <1>1, <1>2, <1>4, <1>5

\* What the table on the disk has no sector for is not written.
LEMMA OffDiskKept ==
    ASSUME DiskOK, call.sector \in Nat, call.sector < Sectors,
           \A e \in Entries : disk'.entries[e] = [f \in Fields |->
              IF SectorOf[e][f] = call.sector THEN table[e][f] ELSE disk.entries[e][f]]
    PROVE  \A e \in Entries, f \in Fields : ~ OnDisk(e, f) => disk'.entries[e][f] = Empty[f]
  <1> SUFFICES ASSUME NEW e \in Entries, NEW f \in Fields, ~ OnDisk(e, f)
               PROVE  disk'.entries[e][f] = Empty[f]
    OBVIOUS
  <1>1. SectorOf[e][f] # call.sector
    BY DEF OnDisk
  <1>2. disk'.entries[e] = [g \in Fields |->
           IF SectorOf[e][g] = call.sector THEN table[e][g] ELSE disk.entries[e][g]]
    OBVIOUS
  <1>3. disk'.entries[e][f] = disk.entries[e][f]
    BY <1>1, <1>2
  <1> QED BY <1>3 DEF DiskOK

LEMMA FormatTableKept ==
    ASSUME FsInv, FormatTable
    PROVE  Kept
  <1>1. /\ TypeInv /\ CallOK /\ At("format") /\ SaveTable("sign")
        /\ call.sector \in Nat /\ call.sector < Sectors
        /\ NextSector(Sectors, "sign") /\ UNCHANGED <<table, inodes, deleted>>
    BY DEF FormatTable, SaveTable, FsInv, TypeInv, CallOK, At
  <1>2. PICK ok \in BOOLEAN :
              /\ Reliable' => Reliable
              /\ ok /\ Reliable => Working
              /\ Working' => ok /\ Working
              /\ ~ ok => disk' = disk
              /\ disk'.signed = disk.signed /\ disk'.inodes = disk.inodes
              /\ ok => \A e \in Entries : disk'.entries[e] = [f \in Fields |->
                          IF SectorOf[e][f] = call.sector THEN table[e][f] ELSE disk.entries[e][f]]
    BY <1>1, SectorSaved
  <1>3. CASE ~ ok
    <2>1. Reliable' => DiskOK'
      BY <1>1, <1>2, <1>3, DiskSame
    <2> QED BY <1>2, <1>3, <2>1 DEF Kept
  <1>4. ASSUME ok, Reliable PROVE DiskOK' /\ WorkOK'
    <2>1. /\ ~ disk.signed /\ DiskOK
          /\ table = [NoTable EXCEPT ![0] = Root]
          /\ 0 < call.sector => disk.entries[0] = Root
          /\ \A e \in Entries : disk.entries[e] = Empty \/ (e = 0 /\ disk.entries[e] = Root)
      BY <1>1, <1>2, <1>4 DEF FsInv, WorkOK, DiskOK
    <2>2. 0 \in Entries /\ \A f \in Fields : SectorOf[0][f] = 0
      BY ArabFSAssumption DEF Entries
    <2>3. table[0] = Root /\ \A e \in Entries : e # 0 => table[e] = Empty
      BY <2>1, <2>2 DEF NoTable
    <2>4. \A e \in Entries : disk'.entries[e] = [f \in Fields |->
             IF SectorOf[e][f] = call.sector THEN table[e][f] ELSE disk.entries[e][f]]
      BY <1>2, <1>4
    <2>5. \A e \in Entries : e # 0 => disk'.entries[e] = Empty
      <3> SUFFICES ASSUME NEW e \in Entries, e # 0 PROVE disk'.entries[e] = Empty
        OBVIOUS
      <3>1. table[e] = Empty /\ disk.entries[e] = Empty
        BY <2>1, <2>3
      <3>2. disk'.entries[e] = [f \in Fields |-> Empty[f]]
        BY <2>4, <3>1
      <3> QED BY <3>2, EntryShapes
    <2>6. disk'.entries[0] = Root
      <3>1. CASE call.sector = 0
        <4>1. disk'.entries[0] = [f \in Fields |-> Root[f]]
          BY <2>2, <2>3, <2>4, <3>1
        <4> QED BY <4>1, EntryShapes
      <3>2. CASE call.sector # 0
        <4>1. disk.entries[0] = Root
          BY <1>1, <2>1, <3>2
        <4>2. disk'.entries[0] = [f \in Fields |-> Root[f]]
          BY <2>2, <2>4, <3>2, <4>1
        <4> QED BY <4>2, EntryShapes
      <3> QED BY <3>1, <3>2
    <2>7. \A e \in Entries, f \in Fields : ~ OnDisk(e, f) => disk'.entries[e][f] = Empty[f]
      BY <1>1, <2>1, <2>4, OffDiskKept
    <2>8. ~ IsFile(Empty) /\ ~ IsFile(Root)
      BY DEF IsFile, Empty, Root
    <2>9. FilesIn(disk'.entries, disk'.inodes)
      <3>1. \A e \in Entries : ~ IsFile(disk'.entries[e])
        BY <2>5, <2>6, <2>8
      <3> QED BY <3>1 DEF FilesIn, Whole
    <2>10. DiskOK'
      BY <1>2, <2>1, <2>5, <2>6, <2>7, <2>9 DEF DiskOK, OnDisk
    <2>11. call'.at \in {"format", "sign"}
      <3>1. CASE call.sector + 1 < Sectors
        BY <1>1, <3>1, NextSets DEF At
      <3>2. CASE ~ (call.sector + 1 < Sectors)
        <4>1. Goto("sign")
          BY <1>1, <3>2, NextSets
        <4> QED BY <1>1, <4>1, GotoSets
      <3> QED BY <3>1, <3>2
    <2>12. ~ disk'.signed /\ table' = [NoTable EXCEPT ![0] = Root]
      BY <1>1, <1>2, <2>1
    <2>13. WorkOK'
      BY <2>6, <2>11, <2>12 DEF WorkOK, At, Calls
    <2> QED BY <2>10, <2>13
  <1>5. CASE ok
    BY <1>2, <1>4, <1>5 DEF Kept, Working
  <1> QED BY <1>3, <1>5

LEMMA WriteSignatureKept ==
    ASSUME FsInv, WriteSignature
    PROVE  Kept
  <1>1. TypeInv /\ At("sign") /\ call'.at = "idle" /\ UNCHANGED <<table, inodes, deleted>>
    BY ReturnSets DEF WriteSignature, FsInv
  <1>2. PICK ok \in BOOLEAN :
          Command(ok) /\ disk' = IF ok THEN [disk EXCEPT !.signed = TRUE] ELSE disk
    BY DEF WriteSignature
  <1>3. /\ Reliable' => Reliable
        /\ ok /\ Reliable => Working
        /\ Working' => ok /\ Working
    BY <1>1, <1>2, CommandEffect DEF TypeInv
  <1>4. CASE ~ ok
    <2>1. Reliable' => DiskOK'
      BY <1>1, <1>2, <1>3, <1>4, DiskSame
    <2> QED BY <1>3, <1>4, <2>1 DEF Kept
  <1>5. CASE ok
    <2>1. disk'.signed /\ disk'.entries = disk.entries /\ disk'.inodes = disk.inodes
      BY <1>1, <1>2, <1>5 DEF TypeInv
    <2>2. Reliable => DiskOK /\ disk.entries[0] = Root
      BY <1>1, <1>3, <1>5 DEF FsInv, WorkOK
    <2>3. Reliable' => DiskOK'
      BY <1>1, <1>3, <2>1, <2>2 DEF DiskOK, OnDisk
    <2>4. WorkOK'
      BY <1>1, <2>1 DEF WorkOK, At, Calls
    <2> QED BY <2>3, <2>4 DEF Kept
  <1> QED BY <1>4, <1>5

LEMMA SaveKept ==
    ASSUME FsInv, Save
    PROVE  Kept
  <1>1. /\ TypeInv /\ CallOK /\ At("save") /\ SaveTable("idle")
        /\ call.sector \in Nat /\ call.sector < Sectors
        /\ NextSector(Sectors, "idle") /\ UNCHANGED <<table, inodes, deleted>>
    BY DEF Save, SaveTable, FsInv, TypeInv, CallOK, At
  <1>2. PICK ok \in BOOLEAN :
              /\ Reliable' => Reliable
              /\ ok /\ Reliable => Working
              /\ Working' => ok /\ Working
              /\ ~ ok => disk' = disk
              /\ disk'.signed = disk.signed /\ disk'.inodes = disk.inodes
              /\ ok => \A e \in Entries : disk'.entries[e] = [f \in Fields |->
                          IF SectorOf[e][f] = call.sector THEN table[e][f] ELSE disk.entries[e][f]]
    BY <1>1, SectorSaved
  <1>3. CASE ~ ok
    <2>1. Reliable' => DiskOK'
      BY <1>1, <1>2, <1>3, DiskSame
    <2> QED BY <1>2, <1>3, <2>1 DEF Kept
  <1>4. ASSUME ok, Reliable PROVE DiskOK' /\ WorkOK'
    <2>1. DiskOK /\ disk.signed /\ table[0] = Root
      BY <1>1, <1>2, <1>4 DEF FsInv, WorkOK, At
    <2>2. /\ call.op \in {"mkdir", "create"} => Added
          /\ call.op \in {"rmdir", "delete"} => Removed
          /\ ~ deleted => Creating
      BY <1>1, <1>2, <1>4 DEF FsInv, WorkOK
    <2>3. 0 \in Entries /\ {"used", "dir", "parent", "inode"} \subseteq Fields
          /\ \A e \in Entries, f \in Fields : SectorOf[e][f] \in Nat
      BY ArabFSAssumption DEF Entries, Fields
    <2>4. \A e \in Entries : disk'.entries[e] = [f \in Fields |->
             IF SectorOf[e][f] = call.sector THEN table[e][f] ELSE disk.entries[e][f]]
      BY <1>2, <1>4
    <2>5. \A e \in Entries, f \in Fields : disk'.entries[e][f] =
             IF SectorOf[e][f] = call.sector THEN table[e][f] ELSE disk.entries[e][f]
      BY <2>4
    <2>6. disk'.signed /\ disk'.entries[0] = Root
      <3>1. disk.entries[0] = Root
        BY <2>1 DEF DiskOK
      <3>2. disk'.entries[0] = [f \in Fields |-> Root[f]]
        BY <2>1, <2>3, <2>4, <3>1
      <3> QED BY <1>2, <2>1, <3>2, EntryShapes
    <2>7. \A e \in Entries, f \in Fields : ~ OnDisk(e, f) => disk'.entries[e][f] = Empty[f]
      BY <1>1, <2>1, <2>4, OffDiskKept
    <2> DEFINE Same(x, y) == x.used = y.used /\ x.dir = y.dir /\ x.inode = y.inode
    <2>8. ASSUME NEW e \in Whole
          PROVE  /\ e \in Entries
                 /\ \E x \in {table[e], disk.entries[e]} : Same(disk'.entries[e], x)
      <3>1. e \in Entries /\ SectorOf[e]["dir"] = SectorOf[e]["used"]
            /\ SectorOf[e]["inode"] = SectorOf[e]["used"]
        BY <2>8 DEF Whole
      <3> QED BY <2>3, <2>5, <3>1
    <2>9. \A x, y : Same(x, y) => IsFile(x) = IsFile(y) /\ x.inode = y.inode
      BY SameFile
    <2>10. \A e \in Entries : IsFile(disk'.entries[e]) => OnDisk(e, "used")
      <3>1. "used" \in Fields /\ Empty["used"] = FALSE
        BY <2>3 DEF Empty
      <3> QED BY <2>7, <3>1 DEF IsFile
    <2> HIDE DEF Same
    <2>11. ASSUME ~ deleted PROVE FilesIn(disk'.entries, disk'.inodes)
      <3>1. ASSUME NEW e \in Whole, NEW g \in Whole, IsFile(disk'.entries[e])
            PROVE  /\ disk.inodes[disk'.entries[e].inode]
                   /\ IsFile(disk'.entries[g]) /\ disk'.entries[g].inode = disk'.entries[e].inode
                        => e = g
        <4>1. PICK x \in {table[e], disk.entries[e]} : Same(disk'.entries[e], x)
          BY <2>8
        <4>2. PICK y \in {table[g], disk.entries[g]} : Same(disk'.entries[g], y)
          BY <2>8
        <4>3. IsFile(x) /\ x.inode = disk'.entries[e].inode
              /\ IsFile(y) = IsFile(disk'.entries[g]) /\ y.inode = disk'.entries[g].inode
          BY <2>9, <3>1, <4>1, <4>2
        <4>4. OnDisk(e, "used") /\ (IsFile(disk'.entries[g]) => OnDisk(g, "used"))
          BY <2>8, <2>10, <3>1
        <4>5. Creating
          BY <2>2, <2>11
        <4>6. disk.inodes[x.inode]
          BY <4>3, <4>4, <4>5 DEF Creating
        <4>7. ASSUME IsFile(disk'.entries[g]), disk'.entries[g].inode = disk'.entries[e].inode
              PROVE  e = g
          <5>1. IsFile(y) /\ y.inode = x.inode /\ OnDisk(g, "used")
            BY <4>3, <4>4, <4>7
          <5> QED BY <4>1, <4>2, <4>3, <4>4, <4>5, <5>1 DEF Creating
        <4> QED BY <4>3, <4>6, <4>7
      <3> QED BY <1>2, <3>1 DEF FilesIn
    <2>12. DiskOK'
      BY <1>1, <1>2, <2>1, <2>6, <2>7, <2>11 DEF DiskOK, OnDisk
    <2>13. ASSUME Return PROVE WorkOK'
      BY <2>6, <2>13, ReturnSets DEF WorkOK, At, Calls
    <2>14. ASSUME call'.at = call.at, call'.op = call.op, call'.entry = call.entry,
                  call'.sector = call.sector + 1
           PROVE  WorkOK'
      <3>1. ASSUME call.op \in {"mkdir", "create"} PROVE Added'
        <4>1. Added
          BY <2>2, <3>1
        <4>2. ASSUME NEW e \in Entries, NEW f \in Fields, OnDisk(e, f),
                     table[e][f] # disk'.entries[e][f]
              PROVE  e = call.entry /\ (disk'.entries[e].used => SectorOf[e]["used"] < call.sector + 1)
          <5>1. table[e][f] # disk.entries[e][f]
            BY <2>5, <4>2
          <5>2. e = call.entry /\ (disk.entries[e].used => SectorOf[e].used < call.sector)
            BY <4>1, <4>2, <5>1 DEF Added
          <5>3. SectorOf[e]["used"] \in Nat /\ (disk'.entries[e]["used"] =
                  IF SectorOf[e]["used"] = call.sector THEN table[e]["used"]
                  ELSE disk.entries[e]["used"])
            BY <2>3, <2>5
          <5>4. CASE SectorOf[e]["used"] = call.sector
            BY <1>1, <5>2, <5>4
          <5>5. CASE SectorOf[e]["used"] # call.sector
            BY <1>1, <5>2, <5>3, <5>5
          <5> QED BY <5>4, <5>5
        <4> QED BY <1>1, <2>14, <4>2 DEF Added, OnDisk
      <3>2. ASSUME call.op \in {"rmdir", "delete"} PROVE Removed'
        <4>1. Removed
          BY <2>2, <3>2
        <4>2. ASSUME NEW c \in Entries, NEW f \in Fields, disk'.entries[c][f] # disk.entries[c][f]
              PROVE  f = "used" /\ disk'.entries[c]["used"] = FALSE
          <5>1. SectorOf[c][f] = call.sector /\ table[c][f] # disk.entries[c][f]
                /\ disk'.entries[c][f] = table[c][f]
            BY <2>5, <4>2
          <5>2. OnDisk(c, f)
            BY <1>1, <5>1 DEF OnDisk
          <5> QED BY <4>1, <5>1, <5>2 DEF Removed
        <4>3. ASSUME NEW e \in Entries, NEW f \in Fields, OnDisk(e, f),
                     table[e][f] # disk'.entries[e][f]
              PROVE  /\ f = "used" /\ table[e].used = FALSE
                     /\ disk'.entries[e].dir =>
                          ~ \E c \in Entries : disk'.entries[c].used /\ disk'.entries[c].parent = e
          <5>1. table[e][f] # disk.entries[e][f]
            BY <2>5, <4>3
          <5>2. /\ f = "used" /\ table[e].used = FALSE
                /\ disk.entries[e].dir =>
                     ~ \E c \in Entries : disk.entries[c].used /\ disk.entries[c].parent = e
            BY <4>1, <4>3, <5>1 DEF Removed
          <5>3. disk'.entries[e]["dir"] = disk.entries[e]["dir"]
            BY <2>3, <4>2
          <5>4. ASSUME NEW c \in Entries, disk'.entries[c]["used"]
                PROVE  disk.entries[c]["used"] /\ disk.entries[c]["parent"] = disk'.entries[c]["parent"]
            BY <2>3, <4>2, <5>4
          <5> QED BY <5>2, <5>3, <5>4
        <4> QED BY <1>1, <4>3 DEF Removed, OnDisk
      <3>3. ASSUME ~ deleted PROVE Creating'
        <4>1. Creating
          BY <2>2, <3>3
        <4>2. ASSUME NEW e \in Whole, NEW z \in {table[e], disk'.entries[e]}
              PROVE  \E x \in {table[e], disk.entries[e]} : IsFile(z) = IsFile(x) /\ z.inode = x.inode
          <5>1. CASE z = table[e]
            BY <5>1
          <5>2. CASE z = disk'.entries[e]
            BY <2>8, <2>9, <5>2
          <5> QED BY <4>2, <5>1, <5>2
        <4>3. ASSUME NEW e \in Whole, NEW g \in Whole, OnDisk(e, "used"), OnDisk(g, "used"),
                     NEW x \in {table[e], disk'.entries[e]}, NEW y \in {table[g], disk'.entries[g]},
                     IsFile(x)
              PROVE  disk.inodes[x.inode] /\ (IsFile(y) /\ y.inode = x.inode => e = g)
          <5>1. PICK u \in {table[e], disk.entries[e]} : IsFile(x) = IsFile(u) /\ x.inode = u.inode
            BY <4>2, <4>3
          <5>2. PICK v \in {table[g], disk.entries[g]} : IsFile(y) = IsFile(v) /\ y.inode = v.inode
            BY <4>2, <4>3
          <5>3. disk.inodes[u.inode] /\ (IsFile(v) /\ v.inode = u.inode => e = g)
            BY <4>1, <4>3, <5>1 DEF Creating
          <5> QED BY <5>1, <5>2, <5>3
        <4> QED BY <1>1, <1>2, <4>3 DEF Creating, OnDisk
      <3>4. call'.at = "save" /\ table'[0] = Root
        BY <1>1, <2>1, <2>14 DEF At
      <3> QED BY <1>1, <2>6, <2>14, <3>1, <3>2, <3>3, <3>4 DEF WorkOK, At, Calls
    <2>15. Return \/ /\ call'.at = call.at /\ call'.op = call.op /\ call'.entry = call.entry
                     /\ call'.sector = call.sector + 1
      BY <1>1, NextSets
    <2> QED BY <2>12, <2>13, <2>14, <2>15
  <1>5. CASE ok
    BY <1>2, <1>4, <1>5 DEF Kept, Working
  <1> QED BY <1>3, <1>5

---------------------------------------------------------------------------
(* The theorems.                                                           *)

LEMMA InitInv == Init => FsInv
  <1> SUFFICES ASSUME Init PROVE FsInv
    OBVIOUS
  <1>1. disk = [signed |-> FALSE, entries |-> NoTable, inodes |-> NoInodes] /\ call = Off
    BY DEF Init
  <1>2. \A e \in Entries : disk.entries[e] = Empty
    BY <1>1 DEF NoTable
  <1>3. \A e \in Whole : ~ IsFile(disk.entries[e])
    <2>1. \A e \in Whole : disk.entries[e] = Empty
      BY <1>2 DEF Whole
    <2>2. ~ Empty.used
      BY DEF Empty
    <2> QED BY <2>1, <2>2 DEF IsFile
  <1>4. DiskOK
    BY <1>1, <1>2, <1>3 DEF DiskOK, FilesIn
  <1>5. WorkOK
    BY <1>1 DEF WorkOK, Off, At, Calls
  <1> QED BY <1>4, <1>5, InitTypes DEF FsInv

LEMMA NextInv == FsInv /\ [Next]_vars => FsInv'
  <1> SUFFICES ASSUME FsInv, [Next]_vars PROVE FsInv'
    OBVIOUS
  <1>1. TypeInv'
    BY NextTypes DEF FsInv
  <1>2. Kept
    <2>1. CASE UNCHANGED vars
      <3>1. Reliable' = Reliable /\ Working' = Working
        BY <2>1, NoCommand DEF vars
      <3>2. Reliable' => DiskOK'
        BY <2>1, <3>1, DiskSame DEF vars
      <3>3. Working' => WorkOK'
        BY <2>1, <3>1 DEF vars, FsInv, WorkOK, At, LoadedTo, InodesTo, Added, Removed, Creating,
                          OwnInode, OnDisk, Target
      <3> QED BY <3>2, <3>3 DEF Kept
    <2> QED BY <2>1, BootKept, IsFormattedKept, BeginKept, LoadKept, MkdirKept, RmdirKept,
               CreateInodeKept, WriteDataKept, SaveCreatedKept, AddEntryKept, DeleteInodeKept,
               SaveFreedKept, RemoveEntryKept, FormatTableKept, WriteSignatureKept, SaveKept
            DEF Next
  <1> QED BY <1>1, <1>2 DEF FsInv, Kept

LEMMA AlwaysInv == Spec => []FsInv
  BY InitInv, NextInv, PTL DEF Spec

\* A disk that carries the signature carries the root directory, wherever the
\* machine stops: diskfs_format writes the signature after the table.
THEOREM SignatureComesLast == Spec => []SignedHasRoot
  <1>1. FsInv => SignedHasRoot
    BY DEF FsInv, DiskOK, SignedHasRoot
  <1> QED BY <1>1, AlwaysInv, PTL

\* Until a diskfs_delete, every file in a whole entry with a lasting inode has
\* that inode in use and no other has it, although the sectors of the inodes, the
\* data and the entry are written one by one.
THEOREM FilesKeepInodes == Spec => []FilesHaveInodes
  <1>1. FsInv => FilesHaveInodes
    BY DEF FsInv, DiskOK, FilesHaveInodes, FilesIn, IsFile
  <1> QED BY <1>1, AlwaysInv, PTL

\* The entries on the disk change in two places only.
LEMMA EntriesKept ==
    ASSUME TypeInv, [Next]_vars
    PROVE  disk'.entries = disk.entries \/ FormatTable \/ Save
  <1>1. CASE WriteSignature
    <2>1. PICK ok \in BOOLEAN : disk' = IF ok THEN [disk EXCEPT !.signed = TRUE] ELSE disk
      BY <1>1 DEF WriteSignature
    <2> QED BY <2>1 DEF TypeInv
  <1>2. CASE WriteData
    <2>1. PICK ok \in BOOLEAN, said \in [Overlaid -> BOOLEAN] :
            disk' = IF ok THEN [disk EXCEPT !.inodes = [i \in Inodes |->
                                   IF i \in Overlaid THEN said[i] ELSE @[i]]] ELSE disk
      BY <1>2 DEF WriteData
    <2> QED BY <2>1 DEF TypeInv
  <1>3. CASE SaveCreated \/ SaveFreed
    <2>1. PICK next : SaveInodes(next)
      BY <1>3 DEF SaveCreated, SaveFreed
    <2> QED BY <2>1, InodesSaved
  <1>4. CASE Boot \/ Crash \/ IsFormatted \/ BeginCall \/ Load \/ Look
    BY <1>4 DEF Boot, Crash, IsFormatted, BeginCall, Begin, Load, LoadTable, LoadInodes, Look
  <1>5. CASE Mkdir \/ Rmdir \/ CreateInode \/ AddEntry \/ DeleteInode \/ RemoveEntry
    BY <1>5 DEF Mkdir, Rmdir, CreateInode, AddEntry, DeleteInode, RemoveEntry
  <1>6. CASE UNCHANGED vars
    BY <1>6 DEF vars
  <1> QED BY <1>1, <1>2, <1>3, <1>4, <1>5, <1>6 DEF Next

\* Nothing vanishes: on a formatted disk an entry keeps every word after every
\* step, unless rmdir or diskfs_delete takes its mark away, a directory's only
\* when nothing on the disk is in it, or the call that made it writes the rest of
\* it, whatever else is saved and wherever the machine stops.
THEOREM NothingVanishes == Spec => EntriesSurvive
  <1>1. ASSUME FsInv, [Next]_vars, Reliable, disk.signed,
               NEW e \in Entries, disk.entries[e].used, disk'.entries[e] # disk.entries[e]
        PROVE  \/ e = call.entry /\ SectorOf[e].used < call.sector
               \/ /\ call.op \in {"rmdir", "delete"}
                  /\ disk'.entries[e] = [disk.entries[e] EXCEPT !.used = FALSE]
                  /\ disk.entries[e].dir =>
                       ~ \E c \in Entries : disk.entries[c].used /\ disk.entries[c].parent = e
    <2>1. TypeInv /\ DiskOK
      BY <1>1 DEF FsInv
    <2>2. PICK next \in {"sign", "idle"} :
             /\ SaveTable(next)
             /\ next = "sign" => At("format")
             /\ next = "idle" => At("save")
      BY <1>1, <2>1, EntriesKept DEF FormatTable, Save
    <2>3. PICK ok \in BOOLEAN :
             /\ ok /\ Reliable => Working
             /\ ~ ok => disk' = disk
             /\ ok => \A d \in Entries : disk'.entries[d] = [f \in Fields |->
                         IF SectorOf[d][f] = call.sector THEN table[d][f] ELSE disk.entries[d][f]]
      BY <2>1, <2>2, SectorSaved
    <2>4. ok /\ Working /\ WorkOK
      BY <1>1, <2>3 DEF FsInv
    <2>5. At("save") /\ call.sector < Sectors
      BY <1>1, <2>1, <2>2, <2>4 DEF WorkOK, TypeInv, CallOK, At
    <2> DEFINE old == disk.entries[e]
               new == disk'.entries[e]
    <2>6. /\ new = [f \in Fields |-> IF SectorOf[e][f] = call.sector THEN table[e][f] ELSE old[f]]
          /\ old = [f \in Fields |-> old[f]]
      BY <2>1, <2>3, <2>4 DEF TypeInv, Shaped
    <2>7. PICK f \in Fields : new[f] # old[f]
      BY <1>1, <2>6
    <2>8. \A g \in Fields : new[g] # old[g] =>
             OnDisk(e, g) /\ table[e][g] # old[g] /\ new[g] = table[e][g]
      BY <2>5, <2>6 DEF OnDisk
    <2>9. CASE call.op \in {"mkdir", "create"}
      <3>1. Added
        BY <2>4, <2>5, <2>9 DEF WorkOK
      <3> QED BY <1>1, <2>7, <2>8, <3>1 DEF Added
    <2>10. CASE call.op \in {"rmdir", "delete"}
      <3>1. Removed
        BY <2>4, <2>5, <2>10 DEF WorkOK
      <3>2. \A g \in Fields : new[g] # old[g] =>
               /\ g = "used" /\ new[g] = FALSE
               /\ old.dir => ~ \E c \in Entries : disk.entries[c].used /\ disk.entries[c].parent = e
        BY <2>8, <3>1 DEF Removed
      <3>3. new["used"] = FALSE /\ \A g \in Fields : g # "used" => new[g] = old[g]
        BY <2>7, <3>2
      <3> HIDE DEF old, new
      <3>4. new = [old EXCEPT !.used = FALSE]
        <4>1. new = [g \in Fields |-> new[g]]
          BY <2>6
        <4> DEFINE cut == [old EXCEPT !.used = FALSE]
        <4>2. cut = [g \in Fields |-> cut[g]] /\ cut.used = FALSE
              /\ \A g \in Fields : g # "used" => cut[g] = old[g]
          BY <2>6, Unmarked
        <4> HIDE DEF cut
        <4>3. \A g \in Fields : new[g] = cut[g]
          BY <3>3, <4>2
        <4>4. new = cut
          BY <4>1, <4>2, <4>3
        <4> QED BY <4>4 DEF cut
      <3> QED BY <2>7, <2>10, <3>2, <3>4 DEF old, new
    <2>11. call.op \in {"mkdir", "create", "rmdir", "delete"}
      BY <2>1, <2>5 DEF TypeInv, CallOK
    <2> QED BY <2>9, <2>10, <2>11
  <1>2. FsInv /\ [Next]_vars =>
          (Reliable /\ disk.signed =>
             \A e \in Entries : disk.entries[e].used /\ disk'.entries[e] # disk.entries[e] =>
               \/ e = call.entry /\ SectorOf[e].used < call.sector
               \/ /\ call.op \in {"rmdir", "delete"}
                  /\ disk'.entries[e] = [disk.entries[e] EXCEPT !.used = FALSE]
                  /\ disk.entries[e].dir =>
                       ~ \E f \in Entries : disk.entries[f].used /\ disk.entries[f].parent = e)
    BY <1>1
  <1> QED BY <1>2, AlwaysInv, PTL DEF Spec, EntriesSurvive
=============================================================================
