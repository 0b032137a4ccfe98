----------------------------- MODULE FileSystem -----------------------------
(***************************************************************************)
(* The file manager with its two file systems: RamFs, mounted at the root, *)
(* and DevFs, mounted at /dev.  Processes make calls; a call is a list of  *)
(* steps, one for each lock or table that it takes and lets go.            *)
(*                                                                         *)
(* A path is a sequence of names, with "." and "..".  A node lives as long *)
(* as a directory, an open file or a call refers to it (Arc); the table of *)
(* inodes refers to it weakly.                                             *)
(***************************************************************************)
EXTENDS Integers, Sequences, FiniteSets, SequencesExt, FiniteSetsExt, Functions, TLC

CONSTANTS FProcs,
          FPlans,       \* the calls of each process
          FTree,        \* the nodes at the start
          FDevices,     \* names of the devices
          FMaxInode,    \* INODE_MAX
          FMaxSize      \* FILE_SIZE_MAX

FRoot == 2
DevRoot == 1
FDir(ents) == [dir |-> TRUE, ents |-> ents, data |-> <<>>, est |-> 0]
FFile(data) == [dir |-> FALSE, ents |-> <<>>, data |-> data, est |-> Len(data)]
Closed == [fs |-> "none", node |-> 0, pos |-> 0, mode |-> {}]

VARIABLES fNodes,       \* the nodes that live
          fTable,       \* the inodes with an entry in the table
          fNext,        \* next_inode
          fLock,        \* who has locked which directories
          fHold,        \* nodes that calls in progress refer to
          fDo,          \* what each process has still to do in its call
          fReg,         \* where it has come to: file system, directory and name, old and new
          fFd,          \* the open file of each process
          fCwd,         \* current directory
          fLeft,        \* calls that have still to be made
          fSaid,        \* the result of the last call
          fSeen,        \* whether another call has changed the tree since this one began
          fOdd          \* things that have happened: races, and sizes not kept
fVars == <<fNodes, fTable, fNext, fLock, fHold, fDo, fReg, fFd, fCwd, fLeft, fSaid, fSeen, fOdd>>

NoPlace == [fs |-> "ram", dir |-> FRoot, name |-> "none"]

FInit ==
    /\ fLeft \in FPlans
    /\ fNodes = FTree /\ fTable = DOMAIN FTree /\ fNext = Max(DOMAIN FTree)
    /\ fLock = <<>> /\ fHold = [p \in FProcs |-> {}]
    /\ fDo = [p \in FProcs |-> <<>>] /\ fReg = [p \in FProcs |-> <<NoPlace, NoPlace>>]
    /\ fFd = [p \in FProcs |-> Closed] /\ fCwd = [p \in FProcs |-> <<>>]
    /\ fSaid = [p \in FProcs |-> "Ok"]
    /\ fSeen = [p \in FProcs |-> FALSE] /\ fOdd = {}

-----------------------------------------------------------------------------
(* Paths *)

\* _canonical_path_components; a path that starts with "" is absolute.
Canon(base, path) ==
    FoldLeft(LAMBDA acc, c : CASE c \in {"", "."} -> acc
                               [] c = ".." -> IF acc = <<>> THEN acc ELSE Front(acc)
                               [] OTHER -> Append(acc, c),
             <<>>, (IF path # <<>> /\ path[1] = "" THEN <<>> ELSE base) \o path)

\* The mount point: the longest one that begins the path.
Mounted(comps) ==
    IF comps # <<>> /\ comps[1] = "dev" THEN [fs |-> "dev", dir |-> DevRoot, left |-> Tail(comps)]
    ELSE [fs |-> "ram", dir |-> FRoot, left |-> comps]

\* resolve_all and resolve_parent walk the components after the mount point.
Walk(k, comps, name) ==
    LET m == Mounted(comps)
    IN <<[op |-> "start", k |-> k, place |-> [fs |-> m.fs, dir |-> m.dir, name |-> name]]>>
       \o [n \in 1..Len(m.left) |-> [op |-> "walk", k |-> k, name |-> m.left[n]]]
ParentWalk(k, comps) == Walk(k, Front(comps), Last(comps))

-----------------------------------------------------------------------------
(* Nodes *)

Entry(dir, name) == {n \in 1..Len(fNodes[dir].ents) : fNodes[dir].ents[n].name = name}
Child(dir, name) == fNodes[dir].ents[Min(Entry(dir, name))].node
Refers(nodes, from) == UNION {{nodes[i].ents[n].node : n \in 1..Len(nodes[i].ents)} : i \in from}
Held(hold, fd) == (UNION {hold[p] : p \in FProcs}) \cup {fd[p].node : p \in {q \in FProcs : fd[q].fs = "ram"}}

\* A node that nothing refers to is dropped, and then those it refers to.
Dropped(nodes, held) ==
    LET step[n \in 0..FMaxInode] ==
            IF n = 0 THEN DOMAIN nodes
            ELSE LET set == step[n - 1] IN set \cap (held \cup {FRoot} \cup Refers(nodes, set))
    IN Restrict(nodes, step[FMaxInode])

\* The nodes that are reached from those in from.
ReachFrom(nodes, from) ==
    LET step[n \in 0..FMaxInode] ==
            IF n = 0 THEN from ELSE LET set == step[n - 1] IN set \cup Refers(nodes, set)
    IN step[FMaxInode]
Reach(nodes) == ReachFrom(nodes, {FRoot})
Below(i) == ReachFrom(fNodes, {i})

\* get_entity: the entry of a node that is no more is taken out of the table.
Alive(i) == i \in fTable /\ i \in DOMAIN fNodes

Cleaned(i, nodes) == IF i \in DOMAIN nodes THEN fTable ELSE fTable \ {i}

LockFree(i) == i \notin DOMAIN fLock
Mine(p) == {i \in DOMAIN fLock : fLock[i] = p}

-----------------------------------------------------------------------------
(* Steps *)

FDoes(p, name) == fDo[p] # <<>> /\ Head(fDo[p]).op = name
FThen(p) == fDo' = [fDo EXCEPT ![p] = Tail(@)]
Reg(p, k) == fReg[p][k]

\* A call, or its part do, ends: its locks and references go, with the nodes
\* that only it referred to.
FEnds(p, said, nodes, do) ==
    /\ fSaid' = [fSaid EXCEPT ![p] = said]
    /\ fDo' = [fDo EXCEPT ![p] = do]
    /\ fLock' = Restrict(fLock, DOMAIN fLock \ Mine(p))
    /\ fHold' = [fHold EXCEPT ![p] = {}]
    /\ fNodes' = Dropped(nodes, Held([fHold EXCEPT ![p] = {}], fFd))
    /\ fSeen' = [q \in FProcs |-> fSeen[q] \/ (q # p /\ fDo[q] # <<>> /\ nodes # fNodes)]
    /\ UNCHANGED <<fFd, fLeft>>
FEnd(p, said, nodes) == FEnds(p, said, nodes, <<>>)

FFails(p, why) == FEnd(p, why, fNodes) /\ UNCHANGED <<fTable, fNext, fReg, fCwd, fOdd>>

FStart(p) ==
    /\ FDoes(p, "start") /\ FThen(p)
    /\ fReg' = [fReg EXCEPT ![p][Head(fDo[p]).k] = Head(fDo[p]).place]
    /\ UNCHANGED <<fNodes, fTable, fNext, fLock, fHold, fFd, fCwd, fLeft, fSaid, fSeen, fOdd>>

DevChild(dir, name) == {n + 1 : n \in {m \in 1..Len(FDevices) : dir = DevRoot /\ FDevices[m] = name}}

\* FsDriver::lookup, of either file system.
LookupSays(r, name) ==
    IF r.fs = "dev" THEN IF DevChild(r.dir, name) = {} THEN "NotFound" ELSE "Ok"
    ELSE IF ~Alive(r.dir) THEN "NotFound"
    ELSE IF ~fNodes[r.dir].dir THEN "NotADirectory"
    ELSE IF Entry(r.dir, name) = {} THEN "NotFound" ELSE "Ok"
LookupGives(r, name) == IF r.fs = "dev" THEN Min(DevChild(r.dir, name)) ELSE Child(r.dir, name)
LookupReady(r) == r.fs = "ram" /\ Alive(r.dir) /\ fNodes[r.dir].dir => LockFree(r.dir)

FWalk(p) ==
    /\ FDoes(p, "walk")
    /\ LET o == Head(fDo[p])
           r == Reg(p, o.k)
       IN /\ LookupReady(r)
          /\ IF LookupSays(r, o.name) # "Ok" THEN FFails(p, LookupSays(r, o.name))
             ELSE /\ FThen(p)
                  /\ fReg' = [fReg EXCEPT ![p][o.k].dir = LookupGives(r, o.name)]
                  /\ UNCHANGED <<fNodes, fTable, fNext, fLock, fHold, fFd, fCwd, fLeft, fSaid, fSeen, fOdd>>

\* get_entity and the match of its content, before the lock is waited for.
FGet(p) ==
    /\ FDoes(p, "get")
    /\ LET r == Reg(p, Head(fDo[p]).k)
       IN IF r.fs = "dev" THEN FFails(p, "ReadOnlyFilesystem")
          ELSE IF ~Alive(r.dir)
          THEN /\ FEnd(p, "NotFound", fNodes) /\ fTable' = Cleaned(r.dir, fNodes)
               /\ UNCHANGED <<fNext, fReg, fCwd, fOdd>>
          ELSE IF ~fNodes[r.dir].dir THEN FFails(p, "NotADirectory")
          ELSE /\ FThen(p) /\ fHold' = [fHold EXCEPT ![p] = @ \cup {r.dir}]
               /\ UNCHANGED <<fNodes, fTable, fNext, fLock, fReg, fFd, fCwd, fLeft, fSaid, fSeen, fOdd>>

FTakes(p) ==
    /\ FDoes(p, "lock") /\ FThen(p)
    /\ LET d == Reg(p, Head(fDo[p]).k).dir
       IN LockFree(d) /\ fLock' = fLock @@ (d :> p)
    /\ UNCHANGED <<fNodes, fTable, fNext, fHold, fReg, fFd, fCwd, fLeft, fSaid, fSeen, fOdd>>

Room == Cardinality(fTable) < FMaxInode

\* make_node: a name that exists is refused before an inode is taken, and the
\* table is asked for room.  creat opens what it has made.
FMake(p) ==
    /\ FDoes(p, "make")
    /\ LET o == Head(fDo[p])
           r == Reg(p, 1)
           new == fNext + 1
           node == IF o.dir THEN FDir(<<>>) ELSE FFile(<<>>)
           nodes == [fNodes EXCEPT ![r.dir].ents = Append(@, [name |-> r.name, node |-> new])]
                    @@ (new :> node)
       IN /\ LockFree(r.dir)
          /\ IF Entry(r.dir, r.name) # {} THEN FFails(p, "AlreadyExists")
             ELSE IF ~Room THEN FFails(p, "FilesystemQuotaExceeded")
             ELSE /\ fNext' = new /\ fTable' = fTable \cup {new}
                  /\ fOdd' = IF r.dir \in Reach(fNodes) \/ ~fSeen[p] THEN fOdd ELSE fOdd \cup {"lost"}
                  /\ fReg' = [fReg EXCEPT ![p][1].dir = new]
                  /\ FEnds(p, "Ok", nodes, IF o.dir THEN <<>> ELSE <<[op |-> "open", mode |-> {"read", "write"}]>>)
                  /\ UNCHANGED fCwd

\* confirm_to_remove looks into a directory and needs its lock.
MayLook(i) == fNodes[i].dir => LockFree(i)
Without(ents, name) == SelectSeq(ents, LAMBDA e : e.name # name)

MayRemove(i) == fNodes[i].dir => fNodes[i].ents = <<>>

\* unlink: the entry of the table goes too, unless the node is in use.
FUnlink(p) ==
    /\ FDoes(p, "unlink")
    /\ LET r == Reg(p, 1)
           i == Child(r.dir, r.name)
           nodes == [fNodes EXCEPT ![r.dir].ents = Without(@, r.name)]
           after == Dropped(nodes, Held(fHold, fFd))
       IN IF Entry(r.dir, r.name) = {} THEN FFails(p, "NotFound")
          ELSE /\ MayLook(i)
               /\ IF ~MayRemove(i) THEN FFails(p, "DirectoryNotEmpty")
                  ELSE /\ FEnd(p, "Ok", nodes)
                       /\ fTable' = Cleaned(i, after)
                       /\ fOdd' = IF i \in DOMAIN after THEN fOdd \cup {"used"} ELSE fOdd
                       /\ UNCHANGED <<fNext, fReg, fCwd>>

-----------------------------------------------------------------------------
(* Renaming *)

\* FileManager::rename: into a directory of the new name, under the old name.
FInto(p) ==
    /\ FDoes(p, "into") /\ FThen(p)
    /\ LET r == Reg(p, 2)
           says == LookupSays(r, r.name)
           i == LookupGives(r, r.name)
       IN /\ LookupReady(r)
          /\ fReg' = IF r.name = "none" THEN [fReg EXCEPT ![p][2].name = Reg(p, 1).name]
                     ELSE IF says = "Ok" /\ r.fs = "ram" /\ fNodes[i].dir
                     THEN [fReg EXCEPT ![p][2].dir = i, ![p][2].name = Reg(p, 1).name]
                     ELSE fReg
    /\ UNCHANGED <<fNodes, fTable, fNext, fLock, fHold, fFd, fCwd, fLeft, fSaid, fSeen, fOdd>>

\* The locks that are taken: that of the old directory, then that of the new.
FOrder(p) ==
    /\ FDoes(p, "order")
    /\ LET old == Reg(p, 1)
           new == Reg(p, 2)
           both == <<[op |-> "get", k |-> 1], [op |-> "lock", k |-> 1], [op |-> "source"],
                     [op |-> "get", k |-> 2], [op |-> "lock", k |-> 2], [op |-> "rename"]>>
           one == <<[op |-> "get", k |-> 1], [op |-> "lock", k |-> 1], [op |-> "source"],
                    [op |-> "rename"]>>
       IN IF old.fs # new.fs THEN FFails(p, "CrossesDevices")
          ELSE /\ fDo' = [fDo EXCEPT ![p] = IF old.dir = new.dir THEN one ELSE both]
               /\ UNCHANGED <<fNodes, fTable, fNext, fLock, fHold, fReg, fFd, fCwd, fLeft, fSaid, fSeen, fOdd>>

\* What is renamed is referred to from here on.
FSource(p) ==
    /\ FDoes(p, "source")
    /\ LET r == Reg(p, 1)
       IN IF Entry(r.dir, r.name) = {} THEN FFails(p, "NotFound")
          ELSE /\ FThen(p)
               /\ fHold' = [fHold EXCEPT ![p] = @ \cup {Child(r.dir, r.name)}]
               /\ UNCHANGED <<fNodes, fTable, fNext, fLock, fReg, fFd, fCwd, fLeft, fSaid, fSeen, fOdd>>

\* force_rename, or remove and append_or_replace.
Moved(old, new, node) ==
    LET at == Entry(new.dir, new.name)
        gone == [fNodes EXCEPT ![old.dir].ents = Without(@, old.name)]
    IN IF old.dir = new.dir
       THEN [fNodes EXCEPT ![old.dir].ents =
                [n \in 1..Len(Without(@, new.name)) |->
                    IF Without(@, new.name)[n].name = old.name
                    THEN [name |-> new.name, node |-> node] ELSE Without(@, new.name)[n]]]
       ELSE IF at = {}
       THEN [gone EXCEPT ![new.dir].ents = Append(@, [name |-> new.name, node |-> node])]
       ELSE [gone EXCEPT ![new.dir].ents[Min(at)].node = node]

\* A node of the new name is replaced, unless it is the same one or has entries.
FRename(p) ==
    /\ FDoes(p, "rename")
    /\ LET old == Reg(p, 1)
           new == Reg(p, 2)
           node == Child(old.dir, old.name)
           at == Entry(new.dir, new.name)
           there == Child(new.dir, new.name)
       IN /\ at # {} => MayLook(there)
          /\ IF at # {} /\ ~MayRemove(there) THEN FFails(p, "DirectoryNotEmpty")
             ELSE IF at # {} /\ there = node THEN FFails(p, "Ok")
             ELSE /\ FEnd(p, "Ok", Moved(old, new, node))
                  /\ fOdd' = fOdd \cup (IF at # {} THEN {"replaced"} ELSE {})
                                  \cup (IF fSeen[p] /\ (new.dir \in Below(node) \/ new.dir \notin Reach(fNodes))
                                        THEN {"lost"} ELSE {})
                  /\ UNCHANGED <<fTable, fNext, fReg, fCwd>>

-----------------------------------------------------------------------------
(* Files *)

\* stat of a directory counts its entries and needs its lock.
FStat(p) ==
    /\ FDoes(p, "stat")
    /\ LET o == Head(fDo[p])
           r == Reg(p, 1)
           there == r.fs = "dev" \/ Alive(r.dir)
           isDir == IF r.fs = "dev" THEN r.dir = DevRoot ELSE fNodes[r.dir].dir
       IN IF ~there THEN FFails(p, "NotFound")
          ELSE /\ r.fs = "ram" => MayLook(r.dir)
               /\ IF o.want = "file" /\ isDir THEN FFails(p, "IsADirectory")
                  ELSE IF o.want = "dir" /\ ~isDir THEN FFails(p, "NotADirectory")
                  ELSE /\ FThen(p)
                       /\ UNCHANGED <<fNodes, fTable, fNext, fLock, fHold, fReg, fFd, fCwd, fLeft,
                                      fSaid, fSeen, fOdd>>

\* FsDriver::open.
FOpen(p) ==
    /\ FDoes(p, "open")
    /\ LET r == Reg(p, 1)
       IN IF r.fs = "ram" /\ ~Alive(r.dir)
          THEN /\ FEnd(p, "NotFound", fNodes) /\ fTable' = Cleaned(r.dir, fNodes)
               /\ UNCHANGED <<fNext, fReg, fCwd, fOdd>>
          ELSE /\ fFd' = [fFd EXCEPT ![p] = [fs |-> r.fs, node |-> r.dir, pos |-> 0, mode |-> Head(fDo[p]).mode]]
               /\ FThen(p) /\ fSaid' = [fSaid EXCEPT ![p] = "Ok"]
               /\ UNCHANGED <<fNodes, fTable, fNext, fLock, fHold, fReg, fCwd, fLeft, fSeen, fOdd>>

FSay(p, said) == fSaid' = [fSaid EXCEPT ![p] = said]

\* chdir keeps the path, not the node.
FSetCwd(p) ==
    /\ FDoes(p, "cwd") /\ FThen(p) /\ FSay(p, "Ok")
    /\ fCwd' = [fCwd EXCEPT ![p] = Head(fDo[p]).path]
    /\ UNCHANGED <<fNodes, fTable, fNext, fLock, fHold, fReg, fFd, fLeft, fSeen, fOdd>>

\* The nodes whose size is asked for with the n-th entry.
LooksAt(d, n) == {fNodes[d].ents[m].node : m \in {n} \cap (1..Len(fNodes[d].ents))}

\* read_dir gives one entry after the other; the size of each is asked for
\* while the directory is locked.
FEntry(p) ==
    /\ FDoes(p, "entry")
    /\ LET n == Head(fDo[p]).n
           d == Reg(p, 1).dir
       IN IF n > Len(fNodes[d].ents) THEN FFails(p, "Ok")
          ELSE /\ \A i \in LooksAt(d, n) : MayLook(i)
               /\ FEnds(p, "Ok", fNodes, <<[op |-> "get", k |-> 1], [op |-> "lock", k |-> 1],
                                           [op |-> "entry", n |-> n + 1]>>)
               /\ UNCHANGED <<fTable, fNext, fReg, fCwd, fOdd>>

\* ThisFsFile::write: what was after the place of writing goes, the bytes that
\* a gap leaves are whatever the memory held.
WrittenAt(f, at, bytes) ==
    LET kept == SubSeq(f.data, 1, IF at < Len(f.data) THEN at ELSE Len(f.data))
        gap == [n \in 1..(at - Len(kept)) |-> "any"]
    IN IF bytes = <<>> THEN [f EXCEPT !.data = kept]
       ELSE [f EXCEPT !.data = kept \o gap \o bytes, !.est = at + Len(bytes)]

\* ThisFsFile::truncate, which only makes a file longer, and keeps its size.
Enlarged(data, len) == data \o [n \in 1..(len - Len(data)) |-> "zero"]

FileCall(p, c) ==
    LET fd == fFd[p]
        f == fNodes[fd.node]
        to(pos) == fFd' = [fFd EXCEPT ![p].pos = pos]
        same == UNCHANGED <<fNodes, fOdd>>
    IN \/ /\ c.t = "read" /\ same /\ FSay(p, "Ok")
          /\ to(IF fd.pos < 0 \/ fd.pos >= Len(f.data) THEN fd.pos
                ELSE fd.pos + (IF c.len < Len(f.data) - fd.pos THEN c.len ELSE Len(f.data) - fd.pos))
       \/ /\ c.t = "write"
          /\ IF fd.pos < 0 \/ fd.pos + Len(c.data) > FMaxSize
             THEN same /\ UNCHANGED fFd /\ FSay(p, "FilesystemQuotaExceeded")
             ELSE /\ fNodes' = [fNodes EXCEPT ![fd.node] = WrittenAt(@, fd.pos, c.data)]
                  /\ fOdd' = IF c.data = <<>> THEN fOdd \cup {"size"} ELSE fOdd
                  /\ to(fd.pos + Len(c.data)) /\ FSay(p, "Ok")
       \/ /\ c.t = "seek" /\ same /\ FSay(p, "Ok")
          /\ to(CASE c.whence = "set" -> c.by [] c.whence = "cur" -> fd.pos + c.by
                  [] c.whence = "end" -> f.est + c.by)
       \/ /\ c.t = "truncate" /\ UNCHANGED fFd
          /\ IF Len(f.data) <= c.len
             THEN /\ fNodes' = [fNodes EXCEPT ![fd.node].data = Enlarged(@, c.len)]
                  /\ fOdd' = fOdd \cup {"size"} /\ FSay(p, "Ok")
             ELSE same /\ FSay(p, "InvalidInput")

\* Devices cannot be seeked or truncated; zero and full are read without end,
\* full takes nothing.
DeviceCall(p, c) ==
    LET name == FDevices[fFd[p].node - 1]
    IN /\ UNCHANGED <<fNodes, fOdd>>
       /\ fFd' = IF c.t = "read" /\ name # "null" THEN [fFd EXCEPT ![p].pos = @ + c.len] ELSE fFd
       /\ FSay(p, CASE c.t = "seek" -> "NotSeekable" [] c.t = "truncate" -> "ReadOnlyFilesystem"
                    [] c.t = "write" /\ name = "full" -> "StorageFull" [] OTHER -> "Ok")

\* read, write, lseek and truncate of an open file; each holds its lock.
FUses(p) ==
    /\ fDo[p] = <<>> /\ fLeft[p] # <<>> /\ Head(fLeft[p]).t \in {"read", "write", "seek", "truncate"}
    /\ fLeft' = [fLeft EXCEPT ![p] = Tail(@)]
    /\ LET c == Head(fLeft[p])
       IN IF fFd[p].fs = "none" \/ (c.t \in {"read", "write"} /\ c.t \notin fFd[p].mode)
          THEN UNCHANGED <<fNodes, fFd, fOdd>> /\ FSay(p, "InvalidInput")
          ELSE IF fFd[p].fs = "ram" THEN FileCall(p, c) ELSE DeviceCall(p, c)
    /\ UNCHANGED <<fTable, fNext, fLock, fHold, fDo, fReg, fCwd, fSeen>>

FCloses(p) ==
    /\ fDo[p] = <<>> /\ fLeft[p] # <<>> /\ Head(fLeft[p]).t = "close"
    /\ fLeft' = [fLeft EXCEPT ![p] = Tail(@)]
    /\ fFd' = [fFd EXCEPT ![p] = Closed]
    /\ fNodes' = Dropped(fNodes, Held(fHold, [fFd EXCEPT ![p] = Closed]))
    /\ UNCHANGED <<fTable, fNext, fLock, fHold, fDo, fReg, fCwd, fSaid, fSeen, fOdd>>

-----------------------------------------------------------------------------
(* Calls *)

IsBefore(a, b) == Len(a) <= Len(b) /\ SubSeq(b, 1, Len(a)) = a
Get == <<[op |-> "get", k |-> 1]>>
GetLock == <<[op |-> "get", k |-> 1], [op |-> "lock", k |-> 1]>>

\* Mutant: a directory may be moved into itself.
RenameOpsAnywhere(old, new) ==
    IF old = new THEN <<>>
    ELSE ParentWalk(1, old) \o (IF new = <<>> THEN Walk(2, <<>>, "none") ELSE ParentWalk(2, new))
         \o <<[op |-> "into"], [op |-> "order"]>>

\* rename is refused when the new path goes through the old one.
RenameOps(old, new) ==
    IF old = new \/ IsBefore(old, new) THEN <<>>
    ELSE ParentWalk(1, old) \o (IF new = <<>> THEN Walk(2, <<>>, "none") ELSE ParentWalk(2, new))
         \o <<[op |-> "into"], [op |-> "order"]>>

CallSteps(c, path) ==
    CASE c.t = "mkdir" -> ParentWalk(1, path) \o Get \o <<[op |-> "make", dir |-> TRUE]>>
      [] c.t = "creat" -> ParentWalk(1, path) \o Get \o <<[op |-> "make", dir |-> FALSE]>>
      [] c.t = "unlink" -> ParentWalk(1, path) \o GetLock \o <<[op |-> "unlink"]>>
      [] c.t = "stat" -> ParentWalk(1, path)
                         \o <<[op |-> "walk", k |-> 1, name |-> Last(path)], [op |-> "stat", want |-> "any"]>>
      [] c.t = "open" -> Walk(1, path, "none") \o <<[op |-> "stat", want |-> "file"], [op |-> "open", mode |-> c.mode]>>
      [] c.t = "chdir" -> Walk(1, path, "none")
                          \o <<[op |-> "stat", want |-> "dir"], [op |-> "cwd", path |-> path]>>
      [] c.t = "list" -> Walk(1, path, "none") \o GetLock \o <<[op |-> "entry", n |-> 1]>>

\* A call on a path; those that need a last component refuse the root.
FCalls(p) ==
    /\ fDo[p] = <<>> /\ fLeft[p] # <<>>
    /\ LET c == Head(fLeft[p])
       IN /\ c.t \notin {"read", "write", "seek", "truncate", "close"}
          /\ fLeft' = [fLeft EXCEPT ![p] = Tail(@)] /\ fSeen' = [fSeen EXCEPT ![p] = FALSE]
          /\ LET path == Canon(fCwd[p], c.path)
                 to == Canon(fCwd[p], c.to)
                 do == IF c.t = "rename" THEN RenameOps(path, to)
                       ELSE IF path = <<>> /\ c.t \notin {"open", "chdir", "list"} THEN <<>>
                       ELSE CallSteps(c, path)
             IN /\ fDo' = [fDo EXCEPT ![p] = do]
                /\ FSay(p, IF do # <<>> \/ (c.t = "rename" /\ path = to) THEN "Ok"
                           ELSE IF c.t = "rename" THEN "InvalidInput" ELSE "NotFound")
    /\ UNCHANGED <<fNodes, fTable, fNext, fLock, fHold, fReg, fFd, fCwd, fOdd>>

FStep(p) ==
    \/ FCalls(p) \/ FUses(p) \/ FCloses(p) \/ FStart(p) \/ FWalk(p) \/ FGet(p) \/ FTakes(p)
    \/ FMake(p) \/ FUnlink(p) \/ FInto(p) \/ FOrder(p) \/ FSource(p) \/ FRename(p) \/ FStat(p)
    \/ FOpen(p) \/ FSetCwd(p) \/ FEntry(p)
FilesNext == \E p \in FProcs : FStep(p)

-----------------------------------------------------------------------------
(* Properties *)

FTypeOK ==
    /\ \A i \in DOMAIN fNodes : fNodes[i].dir \in BOOLEAN /\ Len(fNodes[i].data) <= FMaxSize + 1
    /\ DOMAIN fLock \subseteq DOMAIN fNodes /\ fTable \subseteq 1..fNext
    /\ Cardinality(fTable) <= FMaxInode
    /\ \A p \in FProcs : fHold[p] \subseteq DOMAIN fNodes /\ (fFd[p].fs = "ram" => fFd[p].node \in DOMAIN fNodes)

\* Every node is in one directory, once, under a name of its own (append_new,
\* append_or_replace and force_rename), and what directories refer to exists.
EntriesUnique ==
    LET all == {<<i, n>> \in (DOMAIN fNodes) \X (1..FMaxInode) : n <= Len(fNodes[i].ents)}
        at(e) == fNodes[e[1]].ents[e[2]]
    IN \A e \in all : /\ at(e).node \in DOMAIN fNodes
                      /\ \A g \in all : e # g => at(e).node # at(g).node
                                                 /\ (e[1] = g[1] => at(e).name # at(g).name)

\* Every node is reached from the root or is in use by an open file or a call,
\* unless a call has put it into a directory that was removed, or moved,
\* since it had been looked up.
NothingLost ==
    "lost" \in fOdd \/ \A i \in DOMAIN fNodes :
        i \in Reach(fNodes) \/ i \in UNION {Below(j) : j \in Held(fHold, fFd)}

\* The size that stat and lseek use is the size of the file, unless truncate
\* or the writing of nothing has changed it.
SizesAgree == "size" \in fOdd \/ \A i \in DOMAIN fNodes : fNodes[i].est = IF fNodes[i].dir THEN 0 ELSE Len(fNodes[i].data)

\* The table refers to every node that exists, and to no other but those that
\* were in use when they were unlinked, that a rename replaced or that were
\* lost; no call takes these out.
TableKept ==
    /\ DOMAIN fNodes \subseteq fTable
    /\ fOdd \cap {"replaced", "used", "lost"} = {} => fTable \subseteq DOMAIN fNodes

\* The locks that a call waits for.
FWaits(p) ==
    LET o == Head(fDo[p])
        r == Reg(p, IF o.op = "lock" THEN o.k ELSE IF o.op = "rename" THEN 2 ELSE 1)
        wanted == CASE o.op = "lock" -> {r.dir}
                    [] o.op \in {"rename", "unlink"} ->
                         {fNodes[r.dir].ents[n].node : n \in Entry(r.dir, r.name)}
                    [] o.op = "entry" /\ o.n <= Len(fNodes[r.dir].ents) -> LooksAt(r.dir, o.n)
                    [] OTHER -> {}
    IN {i \in wanted : fNodes[i].dir /\ ~LockFree(i)}
StuckSets ==
    {S \in SUBSET {p \in FProcs : fDo[p] # <<>>} :
        S # {} /\ \A p \in S : FWaits(p) # {} /\ \A i \in FWaits(p) : fLock[i] \in S}

\* Calls wait for each other only when one of them is a rename that has locked
\* the old directory: two renames, a rename and a listing, or a rename alone
\* whose old directory is what it would replace.
StuckOnlyInRename ==
    \A S \in StuckSets : \E p \in S : LET o == Head(fDo[p])
                                     IN o.op = "rename" \/ (o.op = "lock" /\ o.k = 2)

\* Every call has ended, unless some wait for each other.
CallsEnded == StuckSets # {} \/ \A p \in FProcs : fDo[p] = <<>> /\ fLeft[p] = <<>>

\* All that the file systems keep: their types, EntriesUnique, NothingLost,
\* SizesAgree, TableKept, StuckOnlyInRename.
FilesInv ==
    FTypeOK /\ EntriesUnique /\ NothingLost /\ SizesAgree /\ TableKept /\ StuckOnlyInRename
=============================================================================
