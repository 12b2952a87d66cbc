------------------------------- MODULE ArabFS -------------------------------
(***************************************************************************)
(* The file system on the disk: a table of entries (files and directories, *)
(* each naming its parent) and a table of inodes, both kept whole in       *)
(* memory.  Every operation first loads the table, changes it in memory    *)
(* and saves it, sector by sector; no result of a sector command is looked *)
(* at.  An entry of 52 bytes may begin in one sector and end in the next.  *)
(* The machine may stop between any two sector commands and start again    *)
(* with empty tables in memory.                                            *)
(***************************************************************************)
EXTENDS Sata, Sequences

CONSTANTS
    MaxFiles,       \* MAX_FILES: the entries 0 .. MaxFiles-1
    SectorOf,       \* entry -> field -> the table sector it lies in
    Sectors,        \* FILE_TABLE_SECTORS: what is past them is never on the disk
    MaxInodes,      \* MAX_INODES: the inodes 0 .. MaxInodes-1
    InodeSectorOf,  \* inode -> the sector of the inode table its "used" lies in
    InodeSectors,   \* INODE_TABLE_SECTORS
    DataSectors,    \* the sectors of the inode table files' data are written to
    MaxCalls,       \* bound: calls that begin
    Paths           \* the paths callers use: sequences of names

VARIABLES
    table,      \* the entries in memory
    inodes,     \* inode_table in memory: which are in use
    disk,       \* [signed, entries, inodes]: what the sectors hold
    call,       \* the call under way: the operation, its path, how far it is,
                \* and the inode and the entry it has taken
    deleted,    \* history: a diskfs_delete has changed something
    calls       \* how many calls have begun

vars == <<table, inodes, disk, call, deleted, calls, device, ci, halted, failures>>

Entries == 0 .. MaxFiles - 1
Inodes == 0 .. MaxInodes - 1

\* The words of an entry in their order; the name may be cut in two by the end
\* of a sector.
Fields == {"used", "dir", "parent", "inode", "head", "tail"}

ASSUME ArabFSAssumption ==
    /\ MaxFiles \in Nat \ {0} /\ MaxInodes \in Nat
    /\ Sectors \in Nat \ {0} /\ SectorOf \in [Entries -> [Fields -> Nat]]
    /\ \A f \in Fields : SectorOf[0][f] = 0      \* the root lies in the first sector
    /\ InodeSectors \in Nat \ {0} /\ InodeSectorOf \in [Inodes -> Nat]

\* A name is [head, tail]; the tail of one that ends in its head is "".
NoName == [head |-> "", tail |-> ""]
Empty == [used |-> FALSE, dir |-> FALSE, parent |-> 0, inode |-> 0, head |-> "", tail |-> ""]
Root == [Empty EXCEPT !.used = TRUE, !.dir = TRUE, !.head = "/"]
NoTable == [e \in Entries |-> Empty]
NoInodes == [i \in Inodes |-> FALSE]
NotFound == MaxFiles

Off == [op |-> "none", path |-> <<>>, at |-> "off", sector |-> 0,
        inode |-> 0, entry |-> NotFound]
Idle == [Off EXCEPT !.at = "idle"]

Init ==
    /\ SataInit
    /\ table = NoTable /\ inodes = NoInodes
    /\ disk = [signed |-> FALSE, entries |-> NoTable, inodes |-> NoInodes]
    /\ call = Off
    /\ deleted = FALSE /\ calls = 0

---------------------------------------------------------------------------
(* Paths.                                                                  *)

\* arabfs_find_entry: the first used entry of that name below parent.  What is
\* behind the end of a name is not compared.
Matches(t, name, parent) ==
    {e \in Entries : /\ t[e].used /\ t[e].parent = parent
                     /\ t[e].head = name.head /\ name.tail \in {"", t[e].tail}}

arabfs_find_entry(t, name, parent) ==
    LET m == Matches(t, name, parent) IN IF m = {} THEN NotFound ELSE Min(m)

\* arabfs_resolve: from the root down; an empty path is the root.
arabfs_resolve(t, path) ==
    LET down[k \in 0 .. Len(path)] ==
            IF k = 0 THEN 0
            ELSE IF down[k-1] = NotFound THEN NotFound
            ELSE arabfs_find_entry(t, path[k], down[k-1])
    IN down[Len(path)]

\* arabfs_get_parent, and the same split in arabfs_mkdir.
ParentPath(path) == IF path = <<>> THEN <<>> ELSE SubSeq(path, 1, Len(path) - 1)
NameIn(path) == IF path = <<>> THEN NoName ELSE path[Len(path)]
Parent == arabfs_resolve(table, ParentPath(call.path))
Target == arabfs_resolve(table, call.path)

FreeEntries == {e \in Entries : ~table[e].used}

\* The free entry taken: what is not assigned stays, of the last entry there.
NewEntry(old, isDir, inode) ==
    LET name == NameIn(call.path)
    IN [used |-> TRUE, dir |-> isDir, parent |-> Parent, inode |-> inode,
        head |-> name.head, tail |-> IF name.tail = "" THEN old.tail ELSE name.tail]

---------------------------------------------------------------------------
(* Sector commands.                                                        *)

At(step) == call.at = step
Goto(step) == call' = [call EXCEPT !.at = step, !.sector = 0]
Return == call' = Idle

\* After one sector the next, of so many; after the last the call goes on.
NextSector(sectors, next) ==
    IF call.sector + 1 < sectors THEN call' = [call EXCEPT !.sector = @ + 1]
    ELSE IF next = "idle" THEN Return ELSE Goto(next)

\* Entries, and inodes, with what lies in sector s taken from others.
TakeSector(entries, others, s) ==
    [e \in Entries |-> [f \in Fields |-> IF SectorOf[e][f] = s THEN others[e][f]
                                         ELSE entries[e][f]]]
TakeInodes(bits, others, s) ==
    [i \in Inodes |-> IF InodeSectorOf[i] = s THEN others[i] ELSE bits[i]]

\* One sector of the table, read over the memory or written; a command that
\* fails changes nothing.
LoadTable(next) ==
    \E ok \in BOOLEAN :
        /\ Command(ok)
        /\ table' = IF ok THEN TakeSector(table, disk.entries, call.sector) ELSE table
        /\ NextSector(Sectors, next)
        /\ UNCHANGED <<inodes, disk, deleted, calls>>

SaveTable(next) ==
    \E ok \in BOOLEAN :
        /\ Command(ok)
        /\ disk' = IF ok THEN [disk EXCEPT !.entries = TakeSector(@, table, call.sector)]
                   ELSE disk
        /\ NextSector(Sectors, next)
        /\ UNCHANGED <<table, inodes, deleted, calls>>

\* The same for one sector of inode_load and of inode_save.
LoadInodes(next) ==
    \E ok \in BOOLEAN :
        /\ Command(ok)
        /\ inodes' = IF ok THEN TakeInodes(inodes, disk.inodes, call.sector) ELSE inodes
        /\ NextSector(InodeSectors, next)
        /\ UNCHANGED <<table, disk, deleted, calls>>

SaveInodes(next) ==
    \E ok \in BOOLEAN :
        /\ Command(ok)
        /\ disk' = IF ok THEN [disk EXCEPT !.inodes = TakeInodes(@, inodes, call.sector)]
                   ELSE disk
        /\ NextSector(InodeSectors, next)
        /\ UNCHANGED <<table, inodes, deleted, calls>>

---------------------------------------------------------------------------
(* The operations.                                                         *)

\* After a boot arabfs_init comes first: diskfs_is_formatted, else diskfs_format.
\* A signature that could not be read is whatever the stack held.
IsFormatted ==
    /\ At("check")
    /\ \E ok \in BOOLEAN : \E formatted \in IF ok THEN {disk.signed} ELSE BOOLEAN :
        /\ Command(ok)
        /\ IF formatted THEN Return /\ UNCHANGED table
           ELSE Goto("format") /\ table' = [NoTable EXCEPT ![0] = Root]
    /\ UNCHANGED <<inodes, disk, deleted, calls>>

\* Mutant of FormatTable: the signature goes first.
SignFirst ==
    /\ At("format") /\ Command(TRUE) /\ Goto("sign")
    /\ disk' = [disk EXCEPT !.signed = TRUE]
    /\ UNCHANGED <<table, inodes, deleted, calls>>

FormatTable == At("format") /\ SaveTable("sign")

WriteSignature ==
    /\ At("sign")
    /\ \E ok \in BOOLEAN :
        /\ Command(ok)
        /\ disk' = IF ok THEN [disk EXCEPT !.signed = TRUE] ELSE disk
    /\ Return
    /\ UNCHANGED <<table, inodes, deleted, calls>>

\* Bounds: no more than MaxCalls calls begin, and none once MaxFailures commands
\* have failed.
Begin(op, path, step) ==
    /\ At("idle") /\ calls < MaxCalls /\ failures < MaxFailures
    /\ call' = [Idle EXCEPT !.op = op, !.path = path, !.at = step]
    /\ calls' = calls + 1
    /\ UNCHANGED <<table, inodes, disk, deleted, device, ci, halted, failures>>

\* arabfs_mkdir, arabfs_rmdir, diskfs_delete and arabfs_list_path load the table;
\* diskfs_create and diskfs_read load the inodes first.
BeginCall ==
    \E path \in Paths :
        \/ \E op \in {"mkdir", "rmdir", "delete"} : Begin(op, path, "load")
        \/ Begin("create", path, "load_inodes")
        \/ Begin("list", <<>>, "load")
        \/ Begin("read", <<>>, "load_inodes")

\* Mutant of Load: the table in memory is taken as it is.
LoadNothing ==
    \/ At("load_inodes") /\ LoadInodes("load")
    \/ At("load") /\ Command(TRUE) /\ Goto(call.op) /\ UNCHANGED <<table, inodes, disk, deleted, calls>>

Load ==
    \/ At("load_inodes") /\ LoadInodes("load")
    \/ At("load") /\ LoadTable(call.op)

\* arabfs_list_path and diskfs_read only look.
Look == /\ (At("list") \/ At("read")) /\ Return
        /\ UNCHANGED <<table, inodes, disk, deleted, calls, device, ci, halted, failures>>

Mkdir ==
    /\ At("mkdir")
    /\ IF Parent = NotFound \/ Matches(table, NameIn(call.path), Parent) # {} \/ FreeEntries = {}
         THEN Return /\ UNCHANGED table
         ELSE LET e == Min(FreeEntries)
              IN /\ table' = [table EXCEPT ![e] = NewEntry(@, TRUE, @.inode)]
                 /\ call' = [call EXCEPT !.at = "save", !.entry = e]
    /\ UNCHANGED <<inodes, disk, deleted, calls, device, ci, halted, failures>>

Rmdir ==
    /\ At("rmdir")
    /\ IF Target = NotFound THEN Return /\ UNCHANGED table
       ELSE IF ~table[Target].dir \/ Target = 0
                \/ \E e \in Entries : table[e].used /\ table[e].parent = Target
         THEN Return /\ UNCHANGED table
         ELSE table' = [table EXCEPT ![Target].used = FALSE] /\ Goto("save")
    /\ UNCHANGED <<inodes, disk, deleted, calls, device, ci, halted, failures>>

FreeInodes == {i \in Inodes : ~inodes[i]}

\* diskfs_create takes an inode; a name that exists already is not refused.
CreateInode ==
    /\ At("create")
    /\ IF Parent = NotFound \/ FreeInodes = {}
         THEN Return /\ UNCHANGED inodes
         ELSE /\ inodes' = [inodes EXCEPT ![Min(FreeInodes)] = TRUE]
              /\ call' = [call EXCEPT !.at = "data", !.inode = Min(FreeInodes)]
    /\ UNCHANGED <<table, disk, deleted, calls, device, ci, halted, failures>>

\* arabfs_write_data: the sectors lie inside the inode table, so the inodes
\* there are read as whatever the data says until inode_save has run.
Overlaid == {i \in Inodes : InodeSectorOf[i] \in DataSectors}

WriteData ==
    /\ At("data")
    /\ \E ok \in BOOLEAN, said \in [Overlaid -> BOOLEAN] :
        /\ Command(ok)
        /\ disk' = IF ok THEN [disk EXCEPT !.inodes = [i \in Inodes |->
                                 IF i \in Overlaid THEN said[i] ELSE @[i]]] ELSE disk
    /\ Goto("save_inodes")
    /\ UNCHANGED <<table, inodes, deleted, calls>>

\* Mutant of SaveCreated: the inodes stay in memory.
SaveNothing == At("save_inodes") /\ Goto("add_entry")
               /\ UNCHANGED <<table, inodes, disk, deleted, calls, device, ci, halted, failures>>

SaveCreated == At("save_inodes") /\ SaveInodes("add_entry")

\* The entry is made last; when the table is full the call still succeeds.
AddEntry ==
    /\ At("add_entry")
    /\ IF FreeEntries = {} THEN Goto("save") /\ UNCHANGED table
       ELSE LET e == Min(FreeEntries)
            IN /\ table' = [table EXCEPT ![e] = NewEntry(@, FALSE, call.inode)]
               /\ call' = [call EXCEPT !.at = "save", !.entry = e]
    /\ UNCHANGED <<inodes, disk, deleted, calls, device, ci, halted, failures>>

\* diskfs_delete frees the inode in the table memory happens to hold: it does
\* not load the inodes.
DeleteInode ==
    /\ At("delete")
    /\ IF Target = NotFound THEN Return /\ UNCHANGED <<inodes, deleted>>
       ELSE IF table[Target].dir THEN Return /\ UNCHANGED <<inodes, deleted>>
       ELSE /\ inodes' = [inodes EXCEPT ![table[Target].inode] = FALSE]
            /\ deleted' = TRUE
            /\ Goto("save_freed")
    /\ UNCHANGED <<table, disk, calls, device, ci, halted, failures>>

SaveFreed == At("save_freed") /\ SaveInodes("remove_entry")

RemoveEntry ==
    /\ At("remove_entry")
    /\ table' = [table EXCEPT ![Target].used = FALSE]
    /\ Goto("save")
    /\ UNCHANGED <<inodes, disk, deleted, calls, device, ci, halted, failures>>

Save == At("save") /\ SaveTable("idle")

\* The machine starts: sata_init, then arabfs_init.
Boot ==
    /\ At("off") /\ sata_init /\ Goto("check")
    /\ UNCHANGED <<table, inodes, disk, deleted, calls>>

\* It stops; memory is cleared, the disk is not.
Crash ==
    /\ ~At("off")
    /\ table' = NoTable /\ inodes' = NoInodes /\ call' = Off /\ SataOff
    /\ UNCHANGED <<disk, deleted, calls>>

Next == \/ Boot \/ Crash \/ IsFormatted \/ FormatTable \/ WriteSignature
        \/ BeginCall \/ Load \/ Look \/ Mkdir \/ Rmdir
        \/ CreateInode \/ WriteData \/ SaveCreated \/ AddEntry
        \/ DeleteInode \/ SaveFreed \/ RemoveEntry \/ Save

Spec == Init /\ [][Next]_vars

---------------------------------------------------------------------------
(* Properties.  A sector command that fails goes unnoticed, so they are    *)
(* about disks whose commands succeed; the machine may stop anywhere.      *)

Reliable == failures = 0

\* A disk that carries the signature carries the root directory: format writes
\* the signature last, so a format cut short is done again at the next boot.
SignedHasRoot == Reliable /\ disk.signed => disk.entries[0] = Root

\* Nothing vanishes: once the disk is formatted, an entry that is on it stays
\* there word for word, unless rmdir or delete is taking it out, which changes
\* its mark only - of a directory only when nothing on the disk is in it - or
\* the call under way made it and its words in the next sector follow;
\* whatever else is created or removed, and wherever the machine stopped.
EntriesSurvive ==
    [][Reliable /\ disk.signed =>
        \A e \in Entries : disk.entries[e].used /\ disk'.entries[e] # disk.entries[e] =>
            \/ e = call.entry /\ SectorOf[e].used < call.sector
            \/ /\ call.op \in {"rmdir", "delete"}
               /\ disk'.entries[e] = [disk.entries[e] EXCEPT !.used = FALSE]
               /\ disk.entries[e].dir =>
                    ~\E f \in Entries : disk.entries[f].used /\ disk.entries[f].parent = e]_vars

\* Entries whose mark, kind and inode lie in one sector (all but 49 and 59 of
\* those on the disk), and inodes that the disk keeps and no data overwrites.
Whole == {e \in Entries : SectorOf[e].dir = SectorOf[e].used /\ SectorOf[e].inode = SectorOf[e].used}
Lasting == {i \in Inodes : InodeSectorOf[i] < InodeSectors} \ Overlaid

\* Until a file has been deleted, every file on the disk has an inode that is in
\* use, and no two files share one, however often the machine stopped amid the
\* sectors of the inodes or between them and the entry: of the files in whole
\* entries, with lasting inodes.
FilesHaveInodes ==
    Reliable /\ ~deleted =>
        LET files == {e \in Whole : disk.entries[e].used /\ ~disk.entries[e].dir
                                    /\ disk.entries[e].inode \in Lasting}
        IN \A e \in files :
            /\ disk.inodes[disk.entries[e].inode]
            /\ \A f \in files : disk.entries[f].inode = disk.entries[e].inode => f = e

=============================================================================
