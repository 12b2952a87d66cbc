------------------------------ MODULE MCArabFS ------------------------------
EXTENDS ArabFS

\* Entry 0 lies in the first of the two sectors, of entry 1 only the mark; entry 2
\* lies in the second, with entry 3 but for the end of its name.
MCSectorOf == [e \in Entries |-> [f \in Fields |->
                CASE e = 0 \/ (e = 1 /\ f = "used") -> 0
                  [] e = 3 /\ f = "tail" -> 2
                  [] OTHER -> 1]]
\* Each of the two sectors has an inode; the third is never on the disk.
MCInodeSectorOf == [i \in Inodes |-> i]
MCPaths == LET a == [head |-> "a", tail |-> ""]
               b == [head |-> "b", tail |-> "c"]
           IN {<<a>>, <<a, b>>}
=============================================================================
