------------------------------ MODULE FileSystem ------------------------------
(***************************************************************************)
(* The RAM-disk file system of kernel/fs.c: inode and block bitmaps, the   *)
(* inode table, a flat root directory, the open-file table and the data    *)
(* blocks.  Only the shell process calls it, so calls do not overlap; the  *)
(* loops of fs_read and fs_write are nevertheless taken one iteration at a *)
(* time, because each iteration may be the last (no block left).           *)
(*                                                                         *)
(* A call that returns an error leaves the structures as they were, and is *)
(* a stuttering step: the guards below are the negation of the early       *)
(* returns.  That includes "directory full" of fs_create, which allocates  *)
(* an inode and frees it again.                                            *)
(***************************************************************************)
EXTENDS Integers, Sequences

CONSTANTS FS_BLOCK_SIZE,  \* 4096 in the code
          FS_NUM_BLOCKS,  \* 256
          FS_MAX_INODES,  \* 64
          FS_MAX_FDS,     \* 32
          FS_DIRECT,      \* 8
          DIR_ENTRIES,    \* FS_BLOCK_SIZE / sizeof(dirent_t) = 128
          Name,           \* names passed by the caller
          LongName,       \* those of FS_MAX_NAME characters or more, and ""
          Byte,           \* values of a byte; 0 is one of them
          Buffers,        \* what the caller writes
          Counts          \* how many bytes the caller asks to read

FS_ROOT_INODE == 0
FS_ROOT_BLOCK == 4
FS_DATA_START == 5

ASSUME FsAssumption ==
    /\ {FS_BLOCK_SIZE, FS_MAX_FDS, FS_DIRECT, DIR_ENTRIES} \subseteq Nat \ {0}
    /\ FS_NUM_BLOCKS \in Nat /\ FS_NUM_BLOCKS > FS_DATA_START
    /\ FS_MAX_INODES \in Nat \ {0}
    /\ DIR_ENTRIES >= FS_MAX_INODES - 1
    /\ LongName \subseteq Name
    /\ Byte \subseteq Nat /\ 0 \in Byte
    /\ Buffers \subseteq Seq(Byte)
    /\ Counts \subseteq Nat

Inode == 0 .. (FS_MAX_INODES - 1)
Block == 0 .. (FS_NUM_BLOCKS - 1)
Entry == 0 .. (DIR_ENTRIES - 1)
Fd    == 0 .. (FS_MAX_FDS - 1)
Slot  == 0 .. (FS_DIRECT - 1)          \* indices of inode_t.blocks
Cell  == 0 .. (FS_BLOCK_SIZE - 1)      \* offsets in a block
NoName == "no name"

Metadata == 0 .. (FS_DATA_START - 1)
MaxBytes == FS_DIRECT * FS_BLOCK_SIZE

VARIABLES inode_bitmap,   \* the inodes whose bit is set
          block_bitmap,   \* the blocks whose bit is set
          inodes,         \* the inode table; the name field is never read
          root_dir,
          fds,
          disk,           \* contents of the data blocks
          call,           \* the fs_read or fs_write in progress
          out             \* what that fs_read has put in the caller's buffer

fsvars == <<inode_bitmap, block_bitmap, inodes, root_dir, fds, disk, call, out>>

ZeroInode == [used |-> FALSE, type |-> "none", size |-> 0, blocks |-> [s \in Slot |-> 0]]
ZeroEntry == [used |-> FALSE, inode |-> 0, name |-> NoName]
ZeroFd    == [used |-> FALSE, inode |-> 0, offset |-> 0]
ZeroBlock == [c \in Cell |-> 0]
NoCall    == [op |-> "none", fd |-> 0, buf |-> << >>, count |-> 0, done |-> 0]

-----------------------------------------------------------------------------
fs_init ==
    /\ inode_bitmap = {FS_ROOT_INODE}
    /\ block_bitmap = Metadata
    /\ inodes = [i \in Inode |->
                   IF i = FS_ROOT_INODE
                     THEN [ZeroInode EXCEPT !.used = TRUE, !.type = "dir",
                                            !.blocks[0] = FS_ROOT_BLOCK]
                     ELSE ZeroInode]
    /\ root_dir = [e \in Entry |-> ZeroEntry]
    /\ fds = [h \in Fd |-> ZeroFd]
    /\ disk = [b \in Block \ Metadata |-> ZeroBlock]
    /\ call = NoCall
    /\ out = << >>

Idle == call.op = "none"

\* x is the least member of S: the one a scan from 0 stops at.
First(x, S) == x \in S /\ \A y \in S : x <= y

\* Fault: the scan for a free block goes one too far.
FreeBlocksOneMore == {b \in FS_DATA_START .. FS_NUM_BLOCKS : b \notin block_bitmap}

FreeInodes == {i \in Inode \ {FS_ROOT_INODE} : i \notin inode_bitmap}
FreeBlocks == {b \in Block \ Metadata : b \notin block_bitmap}
FreeFds    == {h \in Fd : ~fds[h].used}

find_dirent(name) == {e \in Entry : root_dir[e].used /\ root_dir[e].name = name}

\* Fault: a name that exists is created again.
CreateDuplicate(name) ==
    /\ Idle
    /\ name \notin LongName
    /\ \E ino \in Inode, e \in Entry :
         /\ First(ino, FreeInodes)
         /\ First(e, {x \in Entry : ~root_dir[x].used})
         /\ inode_bitmap' = inode_bitmap \cup {ino}
         /\ inodes' = [inodes EXCEPT ![ino] = [ZeroInode EXCEPT !.used = TRUE, !.type = "file"]]
         /\ root_dir' = [root_dir EXCEPT ![e] = [used |-> TRUE, inode |-> ino, name |-> name]]
    /\ UNCHANGED <<block_bitmap, fds, disk, call, out>>

fs_create(name) ==
    /\ Idle
    /\ name \notin LongName
    /\ find_dirent(name) = {}
    /\ \E ino \in Inode, e \in Entry :
         /\ First(ino, FreeInodes)
         /\ First(e, {x \in Entry : ~root_dir[x].used})
         /\ inode_bitmap' = inode_bitmap \cup {ino}
         /\ inodes' = [inodes EXCEPT ![ino] = [ZeroInode EXCEPT !.used = TRUE, !.type = "file"]]
         /\ root_dir' = [root_dir EXCEPT ![e] = [used |-> TRUE, inode |-> ino, name |-> name]]
    /\ UNCHANGED <<block_bitmap, fds, disk, call, out>>

fs_open(name) ==
    /\ Idle
    /\ \E e \in Entry, h \in Fd :
         /\ First(e, find_dirent(name))
         /\ inodes[root_dir[e].inode].used
         /\ First(h, FreeFds)
         /\ fds' = [fds EXCEPT ![h] = [used |-> TRUE, inode |-> root_dir[e].inode, offset |-> 0]]
    /\ UNCHANGED <<inode_bitmap, block_bitmap, inodes, root_dir, disk, call, out>>

fs_close(h) ==
    /\ Idle
    /\ fds[h].used
    /\ fds' = [fds EXCEPT ![h] = ZeroFd]
    /\ UNCHANGED <<inode_bitmap, block_bitmap, inodes, root_dir, disk, call, out>>

\* Faults: the blocks are not freed; an open file is removed.
UnlinkWith(name, evenOpen, blocks) ==
    /\ Idle
    /\ \E e \in Entry :
         /\ First(e, find_dirent(name))
         /\ LET ino == root_dir[e].inode IN
            /\ evenOpen \/ \A h \in Fd : ~(fds[h].used /\ fds[h].inode = ino)
            /\ block_bitmap' = block_bitmap
                 \ (IF blocks THEN {inodes[ino].blocks[s] : s \in Slot} \ Metadata ELSE {})
            /\ inode_bitmap' = inode_bitmap \ {ino}
            /\ inodes' = [inodes EXCEPT ![ino] = ZeroInode]
         /\ root_dir' = [root_dir EXCEPT ![e] = ZeroEntry]
    /\ UNCHANGED <<fds, disk, call, out>>

UnlinkLeaks(name) == UnlinkWith(name, FALSE, FALSE)
UnlinkOpen(name) == UnlinkWith(name, TRUE, TRUE)

fs_unlink(name) ==
    /\ Idle
    /\ \E e \in Entry :
         /\ First(e, find_dirent(name))
         /\ LET ino == root_dir[e].inode IN
            /\ ino # FS_ROOT_INODE
            /\ \A h \in Fd : ~(fds[h].used /\ fds[h].inode = ino)
            /\ block_bitmap' = block_bitmap \ ({inodes[ino].blocks[s] : s \in Slot} \ Metadata)
            /\ inode_bitmap' = inode_bitmap \ {ino}
            /\ inodes' = [inodes EXCEPT ![ino] = ZeroInode]
         /\ root_dir' = [root_dir EXCEPT ![e] = ZeroEntry]
    /\ UNCHANGED <<fds, disk, call, out>>

-----------------------------------------------------------------------------
\* The open, ordinary file behind descriptor h, as fs_read and fs_write test it.
IsFile(h) == fds[h].used /\ inodes[fds[h].inode].used /\ inodes[fds[h].inode].type = "file"

Smaller(a, b) == IF a < b THEN a ELSE b

\* What one iteration of either loop works on.
Ino     == fds[call.fd].inode
Pos     == fds[call.fd].offset
Index   == Pos \div FS_BLOCK_SIZE
Within  == Pos % FS_BLOCK_SIZE
Current == inodes[Ino].blocks[Index]     \* 0 when no block is allocated yet
Piece   == Smaller(FS_BLOCK_SIZE - Within, call.count - call.done)

Advanced == [fds EXCEPT ![call.fd].offset = @ + Piece]
Progress == [call EXCEPT !.done = @ + Piece]

fs_read(h, n) ==
    /\ Idle
    /\ IsFile(h)
    /\ fds[h].offset < inodes[fds[h].inode].size
    /\ LET available == inodes[fds[h].inode].size - fds[h].offset IN
         call' = [NoCall EXCEPT !.op = "read", !.fd = h, !.count = Smaller(n, available)]
    /\ UNCHANGED <<inode_bitmap, block_bitmap, inodes, root_dir, fds, disk, out>>

CanRead == call.done < call.count /\ Index < FS_DIRECT /\ Current # 0

fs_read_block ==
    /\ call.op = "read" /\ CanRead
    /\ out' = out \o [k \in 1 .. Piece |-> disk[Current][Within + k - 1]]
    /\ fds' = Advanced
    /\ call' = Progress
    /\ UNCHANGED <<inode_bitmap, block_bitmap, inodes, root_dir, disk>>

\* The caller takes what was read out of its buffer.
fs_read_return ==
    /\ call.op = "read" /\ ~CanRead
    /\ call' = NoCall
    /\ out' = << >>
    /\ UNCHANGED <<inode_bitmap, block_bitmap, inodes, root_dir, fds, disk>>

fs_write(h, buf) ==
    /\ Idle
    /\ IsFile(h)
    /\ fds[h].offset <= MaxBytes
    /\ call' = [op |-> "write", fd |-> h, buf |-> buf, done |-> 0,
                count |-> Smaller(Len(buf), MaxBytes - fds[h].offset)]
    /\ UNCHANGED <<inode_bitmap, block_bitmap, inodes, root_dir, fds, disk, out>>

CanWrite == /\ call.done < call.count
            /\ Index < FS_DIRECT
            /\ Current # 0 \/ FreeBlocks # {}

\* Fault: every piece is taken from the start of the caller's buffer.
CopiedFromStart(old) ==
    [c \in Cell |-> IF c \in Within .. (Within + Piece - 1)
                      THEN call.buf[c - Within + 1] ELSE old[c]]

\* Block b after the piece is copied over its old contents.
Copied(old) ==
    [c \in Cell |-> IF c \in Within .. (Within + Piece - 1)
                      THEN call.buf[call.done + c - Within + 1] ELSE old[c]]

\* Fault: the block taken is not marked.
WriteUnmarked ==
    /\ call.op = "write" /\ CanWrite
    /\ \/ /\ Current # 0
          /\ disk' = [disk EXCEPT ![Current] = Copied(@)]
          /\ UNCHANGED inodes
       \/ /\ Current = 0
          /\ \E b \in FreeBlocks :
               /\ First(b, FreeBlocks)
               /\ inodes' = [inodes EXCEPT ![Ino].blocks[Index] = b]
               /\ disk' = [disk EXCEPT ![b] = Copied(ZeroBlock)]
    /\ fds' = Advanced
    /\ call' = Progress
    /\ UNCHANGED <<inode_bitmap, block_bitmap, root_dir, out>>

fs_write_block ==
    /\ call.op = "write" /\ CanWrite
    /\ \/ /\ Current # 0
          /\ disk' = [disk EXCEPT ![Current] = Copied(@)]
          /\ UNCHANGED <<block_bitmap, inodes>>
       \/ /\ Current = 0
          /\ \E b \in FreeBlocks :
               /\ First(b, FreeBlocks)
               /\ block_bitmap' = block_bitmap \cup {b}
               /\ inodes' = [inodes EXCEPT ![Ino].blocks[Index] = b]
               /\ disk' = [disk EXCEPT ![b] = Copied(ZeroBlock)]
    /\ fds' = Advanced
    /\ call' = Progress
    /\ UNCHANGED <<inode_bitmap, root_dir, out>>

\* Fault: a write that could not be completed does not count.
WriteShortLosesSize ==
    /\ call.op = "write" /\ ~CanWrite
    /\ inodes' = [inodes EXCEPT ![Ino].size = IF Pos > @ /\ call.done = call.count
                                               THEN Pos ELSE @]
    /\ call' = NoCall
    /\ UNCHANGED <<inode_bitmap, block_bitmap, root_dir, fds, disk, out>>

fs_write_return ==
    /\ call.op = "write" /\ ~CanWrite
    /\ inodes' = [inodes EXCEPT ![Ino].size = IF Pos > @ THEN Pos ELSE @]
    /\ call' = NoCall
    /\ UNCHANGED <<inode_bitmap, block_bitmap, root_dir, fds, disk, out>>

-----------------------------------------------------------------------------
FsNext ==
    \/ \E name \in Name : fs_create(name) \/ fs_open(name) \/ fs_unlink(name)
    \/ \E h \in Fd : \/ fs_close(h)
                     \/ \E n \in Counts : fs_read(h, n)
                     \/ \E buf \in Buffers : fs_write(h, buf)
    \/ fs_read_block \/ fs_read_return
    \/ fs_write_block \/ fs_write_return

FsSpec == fs_init /\ [][FsNext]_fsvars

-----------------------------------------------------------------------------
\* Every structure of the file system has its type.
FsTypeOK ==
    /\ inode_bitmap \subseteq Inode
    /\ block_bitmap \subseteq Block
    /\ inodes \in [Inode -> [used : BOOLEAN, type : {"none", "file", "dir"},
                            size : 0 .. MaxBytes, blocks : [Slot -> Block]]]
    /\ root_dir \in [Entry -> [used : BOOLEAN, inode : Inode, name : Name \cup {NoName}]]
    /\ fds \in [Fd -> [used : BOOLEAN, inode : Inode, offset : 0 .. MaxBytes]]
    /\ disk \in [Block \ Metadata -> [Cell -> Byte]]
    /\ call \in [op : {"none", "read", "write"}, fd : Fd, buf : Buffers \cup {<< >>},
                 count : Nat, done : Nat]
    /\ out \in Seq(Byte)

Files == inode_bitmap \ {FS_ROOT_INODE}

\* The length of file i, the bytes an unfinished fs_write has stored included.
Length(i) == IF call.op = "write" /\ Ino = i /\ Pos > inodes[i].size
               THEN Pos ELSE inodes[i].size

(***************************************************************************)
(* fs_create, fs_write and fs_unlink keep the bitmaps and the tables in    *)
(* step: an inode is marked exactly when it is in use, and a block exactly *)
(* when it is metadata or some file points at it, so nothing leaks and     *)
(* nothing in use can be handed out again.                                 *)
(***************************************************************************)
BitmapsMatchTables ==
    /\ inode_bitmap = {i \in Inode : inodes[i].used}
    /\ block_bitmap = Metadata \cup {inodes[i].blocks[s] : i \in Files, s \in Slot}

\* No two files, and no two places of one file, share a data block, and no
\* file owns a metadata block.
BlocksNotShared ==
    \A i, j \in Files, s, t \in Slot :
        LET b == inodes[i].blocks[s] IN
        b # 0 => /\ b \notin Metadata
                 /\ inodes[j].blocks[t] = b => i = j /\ s = t

\* The directory and the inode table describe the same files: every file is
\* reachable under one name, and every name leads to a file.
DirectoryMatchesInodes ==
    LET UsedEntries == {e \in Entry : root_dir[e].used} IN
    /\ {root_dir[e].inode : e \in UsedEntries} = Files
    /\ \A e, f \in UsedEntries :
          root_dir[e].inode = root_dir[f].inode \/ root_dir[e].name = root_dir[f].name => e = f
    /\ \A i \in Files : inodes[i].type = "file"

\* A descriptor never outlives its file, and never points past its end: the
\* refusal of fs_unlink to remove an open file is what keeps this true.
OpenFilesExist ==
    \A h \in Fd : fds[h].used => /\ fds[h].inode \in Files
                                /\ fds[h].offset <= Length(fds[h].inode)

\* A file has a block for each of its bytes and none beyond, also after a write
\* that ran out of blocks half way.
SizeIsBacked ==
    \A i \in Files, s \in Slot :
        inodes[i].blocks[s] # 0 <=> s * FS_BLOCK_SIZE < Length(i)

(***************************************************************************)
(* To a caller the blocks and inodes are invisible: the file system does   *)
(* what FileStore says, where a file's contents are the bytes its blocks   *)
(* hold below its length.                                                  *)
(***************************************************************************)
Contents(i) == [k \in 1 .. Length(i) |->
    disk[inodes[i].blocks[(k - 1) \div FS_BLOCK_SIZE]][(k - 1) % FS_BLOCK_SIZE]]

Named(n) == root_dir[CHOOSE e \in Entry : e \in find_dirent(n)].inode
Stored == [n \in {m \in Name : find_dirent(m) # {}} |-> Contents(Named(n))]
NameOf(i) == root_dir[CHOOSE e \in Entry : root_dir[e].used /\ root_dir[e].inode = i].name

Handles == [h \in {g \in Fd : fds[g].used} |->
              [name |-> NameOf(fds[h].inode), offset |-> fds[h].offset]]

\* What the call in progress has yet to do.
Pending ==
    CASE call.op = "none"  -> [op |-> "none"]
      [] call.op = "read"  -> [op |-> "read", fd |-> call.fd, left |-> call.count - call.done]
      [] call.op = "write" -> [op |-> "write", fd |-> call.fd,
                               rest |-> SubSeq(call.buf, call.done + 1, Len(call.buf))]

Store == INSTANCE FileStore WITH file <- Stored, handle <- Handles, got <- out, job <- Pending

ImplementsStore == Store!StoreSpec
=============================================================================
