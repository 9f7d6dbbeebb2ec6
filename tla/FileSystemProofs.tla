--------------------------- MODULE FileSystemProofs ---------------------------
(***************************************************************************)
(* Proofs about FileSystem, for every number and size of blocks, number of *)
(* inodes, descriptors and directory entries, and whatever is written.     *)
(***************************************************************************)
EXTENDS FileSystem, SequenceTheorems, TLAPS

\* The records of the inode table, the directory, the descriptors and the calls.
INodes  == [used : BOOLEAN, type : {"none", "file", "dir"},
            size : 0 .. MaxBytes, blocks : [Slot -> Block]]
Dirents == [used : BOOLEAN, inode : Inode, name : Name \cup {NoName}]
FdRecs  == [used : BOOLEAN, inode : Inode, offset : 0 .. MaxBytes]
Calls   == [op : {"none", "read", "write"}, fd : Fd, buf : Buffers \cup {<< >>},
            count : Nat, done : Nat]

\* The loops of fs_read and fs_write: the descriptor stays open, a write keeps
\* to its buffer and below the limit of a file, a read within its file.
CallFits ==
    /\ call.op # "none" => fds[call.fd].used /\ call.done <= call.count
    /\ call.op = "write" => /\ call.count <= Len(call.buf)
                            /\ Pos + (call.count - call.done) <= MaxBytes
    /\ call.op = "read" => Pos + (call.count - call.done) <= inodes[Ino].size

\* Bitmaps, inode table and directory agree.
Tables == BitmapsMatchTables /\ BlocksNotShared /\ DirectoryMatchesInodes

\* The inductive invariant: the invariants of FileSystem need each other, and
\* CallFits while a call is in progress.
FsInv == FsTypeOK /\ Tables /\ OpenFilesExist /\ SizeIsBacked /\ CallFits

-----------------------------------------------------------------------------
\* Arithmetic of blocks and offsets.
LEMMA Division ==
    ASSUME NEW x \in Nat, NEW n \in Nat \ {0}
    PROVE  /\ x \div n \in Nat /\ x % n \in 0 .. (n - 1)
           /\ x = (x \div n) * n + (x % n)
  OBVIOUS

\* Block b begins where block a ends, or after that.
LEMMA BlockOrder ==
    ASSUME NEW a \in Nat, NEW b \in Nat, NEW n \in Nat \ {0}
    PROVE  /\ a * n \in Nat
           /\ a < b => a * n + n <= b * n
           /\ a <= b => a * n <= b * n
  OBVIOUS

\* What the constants give.
LEMMA FsConstants ==
    /\ FS_BLOCK_SIZE \in Nat \ {0} /\ FS_DIRECT \in Nat /\ MaxBytes \in Nat
    /\ 0 \in Slot /\ Slot \subseteq Nat /\ Cell \subseteq Nat
    /\ 0 \in Entry /\ 0 \in Fd
    /\ FS_ROOT_INODE \in Inode /\ FS_ROOT_BLOCK \in Metadata
    /\ Metadata \subseteq Block /\ 0 \in Metadata
    /\ ZeroInode \in INodes /\ ZeroEntry \in Dirents /\ ZeroFd \in FdRecs
    /\ ZeroBlock \in [Cell -> Byte] /\ NoCall \in Calls
<1>1. /\ FS_BLOCK_SIZE \in Nat \ {0} /\ FS_DIRECT \in Nat \ {0} /\ FS_MAX_FDS \in Nat \ {0}
      /\ DIR_ENTRIES \in Nat \ {0} /\ FS_MAX_INODES \in Nat \ {0} /\ 0 \in Byte
      /\ FS_NUM_BLOCKS \in Nat /\ FS_NUM_BLOCKS > 5
  BY FsAssumption DEF FS_DATA_START
<1>2. MaxBytes \in Nat
  BY <1>1 DEF MaxBytes
<1>3. /\ 0 \in Slot /\ Slot \subseteq Nat /\ Cell \subseteq Nat /\ 0 \in Entry /\ 0 \in Fd
      /\ FS_ROOT_INODE \in Inode /\ FS_ROOT_BLOCK \in Metadata
      /\ Metadata \subseteq Block /\ 0 \in Metadata
  BY <1>1 DEF Slot, Cell, Entry, Fd, Inode, Block, Metadata, FS_ROOT_INODE, FS_ROOT_BLOCK, FS_DATA_START
<1>4. 0 \in 0 .. MaxBytes /\ 0 \in Block /\ 0 \in Inode
  BY <1>2, <1>3 DEF FS_ROOT_INODE
<1>5. ZeroInode \in INodes /\ ZeroEntry \in Dirents /\ ZeroFd \in FdRecs /\ NoCall \in Calls
  BY <1>3, <1>4 DEF ZeroInode, ZeroEntry, ZeroFd, NoCall, INodes, Dirents, FdRecs, Calls
<1>6. ZeroBlock \in [Cell -> Byte]
  BY <1>1 DEF ZeroBlock
<1> QED BY <1>1, <1>2, <1>3, <1>5, <1>6

\* The type invariant in these names.
Types ==
    /\ inode_bitmap \subseteq Inode /\ block_bitmap \subseteq Block
    /\ inodes \in [Inode -> INodes] /\ root_dir \in [Entry -> Dirents]
    /\ fds \in [Fd -> FdRecs] /\ disk \in [Block \ Metadata -> [Cell -> Byte]]
    /\ call \in Calls /\ out \in Seq(Byte)

\* Types says what FsTypeOK does, before a step and after it.
LEMMA TypeIs == (FsTypeOK <=> Types) /\ (FsTypeOK' <=> Types')
  BY DEF Types, FsTypeOK, INodes, Dirents, FdRecs, Calls

\* The bitmaps, one bit at a time.
Bits ==
    /\ \A i \in Inode : i \in inode_bitmap <=> inodes[i].used
    /\ \A b \in Block : b \in block_bitmap <=>
          b \in Metadata \/ \E i \in Files, s \in Slot : b = inodes[i].blocks[s]

\* Bits says what BitmapsMatchTables does.
LEMMA BitsAre ==
    ASSUME FsTypeOK, FsTypeOK'
    PROVE  (BitmapsMatchTables <=> Bits) /\ (BitmapsMatchTables' <=> Bits')
<1>t. /\ inode_bitmap \subseteq Inode /\ block_bitmap \subseteq Block /\ Metadata \subseteq Block
      /\ \A i \in Files, s \in Slot : inodes[i].blocks[s] \in Block
  BY TypeIs, FsConstants DEF Types, Files, INodes
<1>u. /\ inode_bitmap' \subseteq Inode /\ block_bitmap' \subseteq Block
      /\ \A i \in Files', s \in Slot : inodes'[i].blocks[s] \in Block
  BY TypeIs DEF Types, Files, INodes
<1> DEFINE P == {inodes[i].blocks[s] : i \in Files, s \in Slot}
           Q == {inodes'[i].blocks[s] : i \in Files', s \in Slot}
<1>1. \A b : b \in P <=> \E i \in Files, s \in Slot : b = inodes[i].blocks[s]
  OBVIOUS
<1>2. \A b : b \in Q <=> \E i \in Files', s \in Slot : b = inodes'[i].blocks[s]
  OBVIOUS
<1>3. BitmapsMatchTables <=> inode_bitmap = {i \in Inode : inodes[i].used} /\ block_bitmap = Metadata \cup P
  BY DEF BitmapsMatchTables
<1>4. BitmapsMatchTables' <=> inode_bitmap' = {i \in Inode : inodes'[i].used} /\ block_bitmap' = Metadata \cup Q
  BY DEF BitmapsMatchTables
<1>5. P \subseteq Block /\ Q \subseteq Block
  BY <1>t, <1>u
<1> HIDE DEF P, Q
<1>6. BitmapsMatchTables <=> Bits
  BY <1>t, <1>1, <1>3, <1>5 DEF Bits
<1>7. BitmapsMatchTables' <=> Bits'
  BY <1>t, <1>u, <1>2, <1>4, <1>5 DEF Bits
<1> QED BY <1>6, <1>7

-----------------------------------------------------------------------------
\* What kernel_main leaves: an empty root directory.
LEMMA FsInitInv == fs_init => FsInv
<1> SUFFICES ASSUME fs_init PROVE FsInv
  OBVIOUS
<1>1. /\ inode_bitmap = {FS_ROOT_INODE} /\ block_bitmap = Metadata /\ call = NoCall /\ out = << >>
      /\ inodes = [i \in Inode |-> IF i = FS_ROOT_INODE
                     THEN [ZeroInode EXCEPT !.used = TRUE, !.type = "dir", !.blocks[0] = FS_ROOT_BLOCK]
                     ELSE ZeroInode]
      /\ root_dir = [e \in Entry |-> ZeroEntry] /\ fds = [h \in Fd |-> ZeroFd]
      /\ disk = [b \in Block \ Metadata |-> ZeroBlock]
  BY DEF fs_init
<1>2. [ZeroInode EXCEPT !.used = TRUE, !.type = "dir", !.blocks[0] = FS_ROOT_BLOCK] \in INodes
  BY FsConstants DEF ZeroInode, INodes
<1>3. inodes \in [Inode -> INodes]
  BY <1>1, <1>2, FsConstants
<1>4. FsTypeOK
  BY <1>1, <1>3, FsConstants, TypeIs, EmptySeq DEF Types
<1>5. Files = {} /\ \A i \in Inode : inodes[i].used <=> i = FS_ROOT_INODE
  BY <1>1 DEF Files, ZeroInode
<1>6. BitmapsMatchTables
  BY <1>1, <1>5, FsConstants DEF BitmapsMatchTables
<1>7. BlocksNotShared
  BY <1>5 DEF BlocksNotShared
<1>8. DirectoryMatchesInodes
  BY <1>1, <1>5 DEF DirectoryMatchesInodes, ZeroEntry
<1>9. OpenFilesExist
  BY <1>1 DEF OpenFilesExist, ZeroFd
<1>10. SizeIsBacked
  BY <1>5 DEF SizeIsBacked
<1>11. CallFits
  BY <1>1 DEF CallFits, NoCall
<1> QED BY <1>4, <1>6, <1>7, <1>8, <1>9, <1>10, <1>11 DEF FsInv, Tables

\* A step that leaves bitmaps, inodes and directory as they are.
LEMMA TablesStay ==
    ASSUME Tables, UNCHANGED <<inode_bitmap, block_bitmap, inodes, root_dir>>
    PROVE  Tables'
  BY DEF Tables, BitmapsMatchTables, BlocksNotShared, DirectoryMatchesInodes, Files

\* Without a call in progress a file is as long as its inode says.
LEMMA IdleLength ==
    /\ call.op # "write" => \A i : Length(i) = inodes[i].size
    /\ call'.op # "write" => \A i : Length(i)' = inodes'[i].size
  BY DEF Length

-----------------------------------------------------------------------------
\* fs_create.
LEMMA CreateKeepsInv ==
    ASSUME FsInv, NEW name \in Name, fs_create(name)
    PROVE  FsInv'
<1> DEFINE new == [ZeroInode EXCEPT !.used = TRUE, !.type = "file"]
<1>1. PICK ino \in Inode, e \in Entry :
        /\ ino \in FreeInodes /\ ~root_dir[e].used
        /\ inode_bitmap' = inode_bitmap \cup {ino}
        /\ inodes' = [inodes EXCEPT ![ino] = new]
        /\ root_dir' = [root_dir EXCEPT ![e] = [used |-> TRUE, inode |-> ino, name |-> name]]
  BY DEF fs_create, First
<1>2. /\ UNCHANGED <<block_bitmap, fds, disk, call, out>> /\ call.op = "none"
      /\ \A x \in Entry : root_dir[x].used => root_dir[x].name # name
  BY DEF fs_create, Idle, find_dirent
<1>3. /\ new \in INodes /\ new.used = TRUE /\ new.type = "file" /\ new.size = 0
      /\ \A s \in Slot : new.blocks[s] = 0
  BY FsConstants DEF INodes, ZeroInode
<1> HIDE DEF new
<1>4. /\ inodes \in [Inode -> INodes] /\ root_dir \in [Entry -> Dirents] /\ FsTypeOK
  BY TypeIs DEF Types, FsInv
<1>5. ino \notin inode_bitmap /\ ino # FS_ROOT_INODE
  BY <1>1 DEF FreeInodes
<1>6. /\ inodes'[ino] = new /\ \A i \in Inode \ {ino} : inodes'[i] = inodes[i]
      /\ root_dir'[e] = [used |-> TRUE, inode |-> ino, name |-> name]
      /\ \A x \in Entry \ {e} : root_dir'[x] = root_dir[x]
  BY <1>1, <1>4
<1>7. FsTypeOK'
  <2>1. inodes' \in [Inode -> INodes] /\ root_dir' \in [Entry -> Dirents]
    BY <1>1, <1>3, <1>4 DEF Dirents
  <2> QED BY <1>1, <1>2, <1>4, <2>1, TypeIs DEF Types
<1>8. Files' = Files \cup {ino} /\ ino \notin Files /\ Files \subseteq Inode
  BY <1>1, <1>4, <1>5, TypeIs DEF Types, Files
<1>9. BitmapsMatchTables'
  <2>1. Bits
    BY <1>4, <1>7, BitsAre DEF FsInv, Tables
  <2>2. ASSUME NEW i \in Inode PROVE i \in inode_bitmap' <=> inodes'[i].used
    BY <1>1, <1>3, <1>6, <2>1 DEF Bits
  <2>3. ASSUME NEW b \in Block \ Metadata
        PROVE  (\E i \in Files, s \in Slot : b = inodes[i].blocks[s])
                  <=> (\E i \in Files', s \in Slot : b = inodes'[i].blocks[s])
    BY <1>3, <1>6, <1>8, FsConstants
  <2>4. Bits'
    BY <1>2, <2>1, <2>2, <2>3 DEF Bits
  <2> QED BY <1>4, <1>7, <2>4, BitsAre
<1>10. BlocksNotShared'
  BY <1>3, <1>6, <1>8 DEF FsInv, Tables, BlocksNotShared
<1>11. DirectoryMatchesInodes'
  <2> DEFINE U == {x \in Entry : root_dir[x].used}
             V == {x \in Entry : root_dir'[x].used}
  <2>1. V = U \cup {e} /\ e \notin U
    BY <1>1, <1>6
  <2>2. /\ {root_dir[x].inode : x \in U} = Files
        /\ \A x, y \in U : root_dir[x].inode = root_dir[y].inode \/ root_dir[x].name = root_dir[y].name => x = y
        /\ \A i \in Files : inodes[i].type = "file"
    BY DEF FsInv, Tables, DirectoryMatchesInodes
  <2>3. {root_dir'[x].inode : x \in V} = Files'
    BY <1>6, <1>8, <2>1, <2>2
  <2>4. \A x \in U : root_dir[x].inode # ino /\ root_dir[x].name # name
    BY <1>2, <1>8, <2>2
  <2>5. \A x, y \in V : root_dir'[x].inode = root_dir'[y].inode \/ root_dir'[x].name = root_dir'[y].name => x = y
    BY <1>6, <2>1, <2>2, <2>4
  <2>6. \A i \in Files' : inodes'[i].type = "file"
    BY <1>3, <1>6, <1>8, <2>2
  <2> QED BY <2>3, <2>5, <2>6 DEF DirectoryMatchesInodes
<1>12. \A i \in Files : Length(i)' = Length(i)
  BY <1>2, <1>6, <1>8, IdleLength
<1>13. OpenFilesExist'
  BY <1>2, <1>8, <1>12 DEF FsInv, OpenFilesExist
<1>14. SizeIsBacked'
  <2>1. Length(ino)' = 0
    BY <1>2, <1>3, <1>6, IdleLength
  <2>2. \A s \in Slot : ~(s * FS_BLOCK_SIZE < 0)
    BY FsConstants, BlockOrder
  <2> QED BY <1>3, <1>6, <1>8, <1>12, <2>1, <2>2 DEF FsInv, SizeIsBacked
<1>15. CallFits'
  BY <1>2 DEF CallFits
<1> QED BY <1>7, <1>9, <1>10, <1>11, <1>13, <1>14, <1>15 DEF FsInv, Tables

\* A used entry names a file.
LEMMA EntryLeadsToFile ==
    ASSUME DirectoryMatchesInodes, NEW e \in Entry, root_dir[e].used
    PROVE  root_dir[e].inode \in Files
<1> DEFINE U == {x \in Entry : root_dir[x].used}
<1>1. {root_dir[x].inode : x \in U} = Files /\ e \in U
  BY DEF DirectoryMatchesInodes
<1> HIDE DEF U
<1> QED BY <1>1

\* fs_open and fs_close.
LEMMA HandleKeepsInv ==
    ASSUME FsInv, NEW h \in Fd, fds' \in [Fd -> FdRecs], call.op = "none",
           \A g \in Fd : g # h => fds'[g] = fds[g],
           fds'[h].used => fds'[h].inode \in Files /\ fds'[h].offset = 0,
           UNCHANGED <<inode_bitmap, block_bitmap, inodes, root_dir, disk, call, out>>
    PROVE  FsInv'
<1>1. FsTypeOK' /\ FsTypeOK
  BY TypeIs DEF Types, FsInv
<1>2. Tables'
  BY TablesStay DEF FsInv
<1>3. Files' = Files /\ \A i : Length(i) = inodes[i].size /\ Length(i)' = inodes[i].size
  BY IdleLength DEF Files
<1>4. \A i \in Files : inodes[i].size \in Nat
  BY <1>1, TypeIs, FsConstants DEF Types, Files, INodes
<1>5. OpenFilesExist'
  BY <1>3, <1>4 DEF FsInv, OpenFilesExist
<1>6. SizeIsBacked'
  BY <1>3 DEF FsInv, SizeIsBacked
<1>7. CallFits'
  BY DEF CallFits
<1> QED BY <1>1, <1>2, <1>5, <1>6, <1>7 DEF FsInv

\* What fs_open and fs_close store is such a descriptor.
LEMMA OpenCloseKeepsInv ==
    ASSUME FsInv, (\E name \in Name : fs_open(name)) \/ (\E h \in Fd : fs_close(h))
    PROVE  FsInv'
<1>1. fds \in [Fd -> FdRecs] /\ root_dir \in [Entry -> Dirents]
  BY TypeIs DEF Types, FsInv
<1>2. ASSUME NEW name \in Name, fs_open(name) PROVE FsInv'
  <2>1. PICK e \in Entry, h \in Fd :
          /\ root_dir[e].used
          /\ fds' = [fds EXCEPT ![h] = [used |-> TRUE, inode |-> root_dir[e].inode, offset |-> 0]]
    BY <1>2 DEF fs_open, First, find_dirent
  <2>2. root_dir[e].inode \in Files /\ root_dir[e].inode \in Inode
    BY <1>1, <2>1, EntryLeadsToFile DEF FsInv, Tables, Dirents
  <2>3. [used |-> TRUE, inode |-> root_dir[e].inode, offset |-> 0] \in FdRecs
    BY <2>2, FsConstants DEF FdRecs
  <2> QED BY <1>1, <1>2, <2>1, <2>2, <2>3, HandleKeepsInv DEF fs_open, Idle
<1>3. ASSUME NEW h \in Fd, fs_close(h) PROVE FsInv'
  <2>1. fds' = [fds EXCEPT ![h] = ZeroFd] /\ ZeroFd \in FdRecs /\ ~ZeroFd.used
    BY <1>3, FsConstants DEF fs_close, ZeroFd
  <2> QED BY <1>1, <1>3, <2>1, HandleKeepsInv DEF fs_close, Idle
<1> QED BY <1>2, <1>3

\* fs_unlink.
LEMMA UnlinkKeepsInv ==
    ASSUME FsInv, NEW name \in Name, fs_unlink(name)
    PROVE  FsInv'
<1>1. PICK e \in Entry :
        LET ino == root_dir[e].inode IN
        /\ root_dir[e].used
        /\ \A h \in Fd : ~(fds[h].used /\ fds[h].inode = ino)
        /\ block_bitmap' = block_bitmap \ ({inodes[ino].blocks[s] : s \in Slot} \ Metadata)
        /\ inode_bitmap' = inode_bitmap \ {ino}
        /\ inodes' = [inodes EXCEPT ![ino] = ZeroInode]
        /\ root_dir' = [root_dir EXCEPT ![e] = ZeroEntry]
  BY DEF fs_unlink, First, find_dirent
<1> DEFINE ino == root_dir[e].inode
<1>2. UNCHANGED <<fds, disk, call, out>> /\ call.op = "none"
  BY DEF fs_unlink, Idle
<1>3. FsTypeOK /\ Types
  BY TypeIs DEF FsInv
<1>4. ino \in Files /\ ino \in Inode
  BY <1>1, <1>3, EntryLeadsToFile DEF FsInv, Tables, Files, Types
<1>5. /\ \A h \in Fd : fds[h].used => fds[h].inode # ino
      /\ block_bitmap' = block_bitmap \ ({inodes[ino].blocks[s] : s \in Slot} \ Metadata)
      /\ inode_bitmap' = inode_bitmap \ {ino}
      /\ inodes' = [inodes EXCEPT ![ino] = ZeroInode]
      /\ root_dir' = [root_dir EXCEPT ![e] = ZeroEntry]
      /\ root_dir[e].used /\ root_dir[e].inode = ino
  BY <1>1
<1> HIDE DEF ino
<1>6. /\ inodes'[ino] = ZeroInode /\ \A i \in Inode \ {ino} : inodes'[i] = inodes[i]
      /\ root_dir'[e] = ZeroEntry /\ \A x \in Entry \ {e} : root_dir'[x] = root_dir[x]
      /\ ~ZeroInode.used /\ ~ZeroEntry.used
  BY <1>1, <1>3, <1>4, <1>5 DEF Types, ZeroInode, ZeroEntry
<1>7. FsTypeOK'
  <2>1. inodes' \in [Inode -> INodes] /\ root_dir' \in [Entry -> Dirents]
    BY <1>3, <1>5, FsConstants DEF Types
  <2> QED BY <1>2, <1>3, <1>5, <2>1, TypeIs DEF Types
<1>8. Files' = Files \ {ino} /\ Files \subseteq Inode
  BY <1>3, <1>5 DEF Files, Types
<1>9. BitmapsMatchTables'
  <2>1. Bits
    BY <1>3, <1>7, BitsAre DEF FsInv, Tables
  <2>2. \A i \in Inode : i \in inode_bitmap' <=> inodes'[i].used
    BY <1>5, <1>6, <2>1 DEF Bits
  <2>3. ASSUME NEW b \in Block
        PROVE  b \in block_bitmap' <=>
                 b \in Metadata \/ \E i \in Files', s \in Slot : b = inodes'[i].blocks[s]
    <3>1. b \in block_bitmap' <=> b \in block_bitmap
                /\ (b \in Metadata \/ \A s \in Slot : b # inodes[ino].blocks[s])
      BY <1>5
    <3>2. CASE b \in Metadata
      BY <2>1, <3>1, <3>2 DEF Bits
    <3>3. CASE b \notin Metadata
      <4>1. b # 0
        BY <3>3, FsConstants
      <4>2. \A i \in Files, s, t \in Slot :
              i # ino /\ b = inodes[i].blocks[s] => b # inodes[ino].blocks[t]
        BY <1>4, <4>1 DEF FsInv, Tables, BlocksNotShared
      <4>3. b \in block_bitmap <=> \E i \in Files, s \in Slot : b = inodes[i].blocks[s]
        BY <2>1, <3>3 DEF Bits
      <4> QED BY <1>6, <1>8, <3>1, <3>3, <4>2, <4>3
    <3> QED BY <3>2, <3>3
  <2>4. Bits'
    BY <2>2, <2>3, FsConstants DEF Bits
  <2> QED BY <1>3, <1>7, <2>4, BitsAre
<1>10. BlocksNotShared'
  BY <1>6, <1>8 DEF FsInv, Tables, BlocksNotShared
<1>11. DirectoryMatchesInodes'
  <2> DEFINE U == {x \in Entry : root_dir[x].used}
             V == {x \in Entry : root_dir'[x].used}
  <2>1. V = U \ {e} /\ e \in U
    BY <1>5, <1>6
  <2>2. /\ {root_dir[x].inode : x \in U} = Files
        /\ \A x, y \in U : root_dir[x].inode = root_dir[y].inode \/ root_dir[x].name = root_dir[y].name => x = y
        /\ \A i \in Files : inodes[i].type = "file"
    BY DEF FsInv, Tables, DirectoryMatchesInodes
  <2>3. {root_dir'[x].inode : x \in V} = Files'
    <3>1. \A x \in V : root_dir'[x].inode \in Files /\ root_dir'[x].inode # ino
      BY <1>5, <1>6, <2>1, <2>2
    <3>2. \A i \in Files \ {ino} : \E x \in V : i = root_dir'[x].inode
      BY <1>5, <1>6, <2>1, <2>2
    <3> QED BY <1>8, <3>1, <3>2
  <2>4. \A x, y \in V : root_dir'[x].inode = root_dir'[y].inode \/ root_dir'[x].name = root_dir'[y].name => x = y
    BY <1>6, <2>1, <2>2
  <2>5. \A i \in Files' : inodes'[i].type = "file"
    BY <1>6, <1>8, <2>2
  <2> QED BY <2>3, <2>4, <2>5 DEF DirectoryMatchesInodes
<1>12. \A i \in Files' : Length(i)' = Length(i)
  BY <1>2, <1>6, <1>8, IdleLength
<1>13. OpenFilesExist'
  BY <1>2, <1>5, <1>8, <1>12 DEF FsInv, OpenFilesExist
<1>14. SizeIsBacked'
  BY <1>6, <1>8, <1>12 DEF FsInv, SizeIsBacked
<1>15. CallFits'
  BY <1>2 DEF CallFits
<1> QED BY <1>7, <1>9, <1>10, <1>11, <1>13, <1>14, <1>15 DEF FsInv, Tables

-----------------------------------------------------------------------------
\* A descriptor, and the inode behind it.
LEMMA BehindHandle ==
    ASSUME FsInv, NEW h \in Fd
    PROVE  /\ fds[h] \in FdRecs /\ fds[h].inode \in Inode /\ fds[h].offset \in Nat
           /\ fds[h].offset <= MaxBytes
           /\ inodes[fds[h].inode] \in INodes /\ inodes[fds[h].inode].size \in Nat
           /\ inodes[fds[h].inode].size <= MaxBytes
           /\ fds[h].used => fds[h].inode \in Files
<1>1. fds[h] \in FdRecs /\ inodes \in [Inode -> INodes]
  BY TypeIs DEF FsInv, Types
<1>2. fds[h].inode \in Inode /\ inodes[fds[h].inode] \in INodes
  BY <1>1 DEF FdRecs
<1> QED BY <1>1, <1>2, FsConstants DEF FdRecs, INodes, FsInv, OpenFilesExist

\* What one iteration works on.
LEMMA PieceIs ==
    ASSUME FsInv, call.op # "none", call.done < call.count
    PROVE  /\ Pos \in Nat /\ Index \in Nat /\ Within \in Cell /\ Piece \in Nat
           /\ Pos = Index * FS_BLOCK_SIZE + Within /\ Index * FS_BLOCK_SIZE \in Nat
           /\ 1 <= Piece /\ Piece <= call.count - call.done
           /\ Within + Piece <= FS_BLOCK_SIZE
           /\ call.fd \in Fd /\ call.done \in Nat /\ call.count \in Nat
<1>1. call.fd \in Fd /\ call.done \in Nat /\ call.count \in Nat
  BY TypeIs DEF FsInv, Types, Calls
<1>2. Pos \in Nat
  BY <1>1, BehindHandle DEF Pos
<1>3. FS_BLOCK_SIZE \in Nat \ {0}
  BY FsConstants
<1>4. /\ Index \in Nat /\ Within \in 0 .. (FS_BLOCK_SIZE - 1)
      /\ Pos = Index * FS_BLOCK_SIZE + Within /\ Index * FS_BLOCK_SIZE \in Nat
  BY <1>2, <1>3, Division, BlockOrder DEF Index, Within
<1>5. Piece \in Nat /\ 1 <= Piece /\ Piece <= call.count - call.done /\ Within + Piece <= FS_BLOCK_SIZE
  BY <1>1, <1>3, <1>4 DEF Piece, Smaller
<1> QED BY <1>1, <1>2, <1>4, <1>5 DEF Cell

\* How the position moves on.
LEMMA AdvancedIs ==
    ASSUME FsInv, call.op # "none", call.done < call.count, Pos + Piece <= MaxBytes,
           fds' = Advanced, call' = Progress
    PROVE  /\ fds' \in [Fd -> FdRecs] /\ call' \in Calls
           /\ \A h \in Fd : fds'[h].used = fds[h].used /\ fds'[h].inode = fds[h].inode
           /\ \A h \in Fd \ {call.fd} : fds'[h] = fds[h]
           /\ Pos' = Pos + Piece /\ Ino' = Ino
           /\ call'.op = call.op /\ call'.fd = call.fd /\ call'.buf = call.buf
           /\ call'.count = call.count /\ call'.done = call.done + Piece
<1>1. fds \in [Fd -> FdRecs] /\ call \in Calls
  BY TypeIs DEF FsInv, Types
<1>2. Pos \in Nat /\ Piece \in Nat /\ call.fd \in Fd /\ call.done \in Nat
  BY PieceIs
<1>3. call' = [call EXCEPT !.done = call.done + Piece]
  BY DEF Progress
<1>4. /\ call' \in Calls /\ call'.op = call.op /\ call'.fd = call.fd /\ call'.buf = call.buf
      /\ call'.count = call.count /\ call'.done = call.done + Piece
  BY <1>1, <1>2, <1>3 DEF Calls
<1>5. fds' = [fds EXCEPT ![call.fd] = [fds[call.fd] EXCEPT !.offset = Pos + Piece]]
  BY DEF Advanced, Pos
<1>6. [fds[call.fd] EXCEPT !.offset = Pos + Piece] \in FdRecs
  BY <1>1, <1>2, FsConstants DEF FdRecs
<1>7. fds' \in [Fd -> FdRecs]
  BY <1>1, <1>2, <1>5, <1>6
<1>8. /\ fds'[call.fd] = [fds[call.fd] EXCEPT !.offset = Pos + Piece]
      /\ \A h \in Fd \ {call.fd} : fds'[h] = fds[h]
  BY <1>1, <1>2, <1>5
<1>9. fds[call.fd] \in FdRecs
  BY <1>1, <1>2
<1>10. /\ fds'[call.fd].offset = Pos + Piece /\ fds'[call.fd].used = fds[call.fd].used
       /\ fds'[call.fd].inode = fds[call.fd].inode
  BY <1>8, <1>9 DEF FdRecs
<1> QED BY <1>4, <1>7, <1>8, <1>10 DEF Pos, Ino

\* Steps that change neither tables nor the length of a file.
LEMMA LengthsStay ==
    ASSUME FsInv, Types', CallFits', Tables',
           inode_bitmap' = inode_bitmap,
           \A i \in Files : inodes'[i].blocks = inodes[i].blocks /\ Length(i)' = Length(i),
           \A h \in Fd : fds'[h].used => /\ fds[h].used /\ fds'[h].inode = fds[h].inode
                                         /\ fds'[h].offset <= Length(fds[h].inode)
    PROVE  FsInv'
<1>1. Files' = Files
  BY DEF Files
<1>2. OpenFilesExist' /\ SizeIsBacked'
  BY <1>1 DEF FsInv, OpenFilesExist, SizeIsBacked
<1> QED BY <1>2, TypeIs DEF FsInv

\* No descriptor is past the end of its file.
LEMMA SizesAre ==
    ASSUME FsInv
    PROVE  \A h \in Fd : fds[h].used => fds[h].offset <= Length(fds[h].inode)
  BY DEF FsInv, OpenFilesExist

\* fs_read, and the return to its caller.
LEMMA ReadKeepsInv ==
    ASSUME FsInv, (\E h \in Fd, n \in Counts : fs_read(h, n)) \/ fs_read_return
    PROVE  FsInv'
<1>1. /\ UNCHANGED <<inode_bitmap, block_bitmap, inodes, root_dir, fds, disk>>
      /\ call.op # "write" /\ call'.op # "write" /\ Types
  <2>1. ASSUME NEW h \in Fd, NEW n \in Counts, fs_read(h, n) PROVE call.op # "write" /\ call'.op # "write"
    <3>1. call.op = "none" /\ \E m, i : call' = [NoCall EXCEPT !.op = "read", !.fd = h, !.count = Smaller(m, i)]
      BY <2>1 DEF fs_read, Idle
    <3>2. call'.op = "read"
      BY <3>1 DEF NoCall
    <3> QED BY <3>1, <3>2
  <2>2. ASSUME fs_read_return PROVE call.op # "write" /\ call'.op # "write"
    BY <2>2 DEF fs_read_return, NoCall
  <2> QED BY <2>1, <2>2, TypeIs DEF fs_read, fs_read_return, FsInv
<1>2. CallFits' /\ call' \in Calls /\ out' \in Seq(Byte)
  <2>1. ASSUME NEW h \in Fd, NEW n \in Counts, fs_read(h, n)
        PROVE  CallFits' /\ call' \in Calls /\ out' \in Seq(Byte)
    <3> DEFINE available == inodes[fds[h].inode].size - fds[h].offset
    <3>1. /\ fds[h].used /\ fds[h].offset < inodes[fds[h].inode].size
          /\ call' = [op |-> "read", fd |-> h, buf |-> << >>, count |-> Smaller(n, available), done |-> 0]
          /\ UNCHANGED <<fds, inodes, out>>
      BY <2>1 DEF fs_read, IsFile, NoCall
    <3>2. n \in Nat /\ available \in Nat
      BY <3>1, BehindHandle, FsAssumption
    <3>3. Smaller(n, available) \in Nat /\ Smaller(n, available) <= available
      BY <3>2 DEF Smaller
    <3>4. call' \in Calls
      BY <3>1, <3>3 DEF Calls
    <3>5. /\ call'.op = "read" /\ call'.fd = h /\ call'.done = 0
          /\ call'.count = Smaller(n, available)
      BY <3>1
    <3>6. Pos' = fds[h].offset /\ Ino' = fds[h].inode
      BY <3>1, <3>5 DEF Pos, Ino
    <3>7. CallFits'
      BY <3>1, <3>3, <3>5, <3>6, BehindHandle DEF CallFits
    <3> QED BY <1>1, <3>1, <3>4, <3>7 DEF Types
  <2>2. CASE fs_read_return
    BY <2>2, FsConstants, EmptySeq DEF fs_read_return, CallFits, NoCall
  <2> QED BY <2>1, <2>2
<1>3. Types'
  BY <1>1, <1>2 DEF Types
<1>4. Tables'
  BY <1>1, TablesStay DEF FsInv
<1>5. \A i : Length(i)' = Length(i)
  BY <1>1, IdleLength
<1> QED BY <1>1, <1>2, <1>3, <1>4, <1>5, LengthsStay, SizesAre

\* One iteration of fs_read: what it copies is data, and it stays in the file.
LEMMA ReadBlockKeepsInv ==
    ASSUME FsInv, fs_read_block
    PROVE  FsInv'
<1>1. /\ call.op = "read" /\ call.done < call.count /\ Index < FS_DIRECT /\ Current # 0
      /\ out' = out \o [k \in 1 .. Piece |-> disk[Current][Within + k - 1]]
      /\ fds' = Advanced /\ call' = Progress
      /\ UNCHANGED <<inode_bitmap, block_bitmap, inodes, root_dir, disk>>
  BY DEF fs_read_block, CanRead
<1>2. /\ Pos + (call.count - call.done) <= inodes[Ino].size /\ fds[call.fd].used
      /\ Types
  BY <1>1, TypeIs DEF FsInv, CallFits
<1>3. /\ Piece \in Nat /\ Pos \in Nat /\ Index \in Nat /\ Within \in Cell /\ 1 <= Piece
      /\ Piece <= call.count - call.done /\ Within + Piece <= FS_BLOCK_SIZE
      /\ call.fd \in Fd /\ call.done \in Nat /\ call.count \in Nat
  BY <1>1, PieceIs
<1>4. /\ Ino \in Files /\ inodes[Ino] \in INodes /\ inodes[Ino].size \in Nat /\ inodes[Ino].size <= MaxBytes
  BY <1>2, <1>3, BehindHandle DEF Ino
<1>5. Pos + Piece <= inodes[Ino].size /\ Pos + Piece <= MaxBytes
  BY <1>2, <1>3, <1>4, FsConstants
<1>6. /\ fds' \in [Fd -> FdRecs] /\ call' \in Calls
      /\ \A h \in Fd : fds'[h].used = fds[h].used /\ fds'[h].inode = fds[h].inode
      /\ \A h \in Fd \ {call.fd} : fds'[h] = fds[h]
      /\ Pos' = Pos + Piece /\ Ino' = Ino
      /\ call'.op = call.op /\ call'.fd = call.fd /\ call'.count = call.count
      /\ call'.done = call.done + Piece
  BY <1>1, <1>5, AdvancedIs
<1>7. out' \in Seq(Byte)
  <2>1. Current \in Block \ Metadata
    <3>1. Index \in Slot
      BY <1>1, <1>3, FsConstants DEF Slot
    <3>2. Current \in Block
      BY <1>4, <3>1 DEF Current, INodes
    <3> QED BY <1>1, <1>4, <3>1, <3>2 DEF FsInv, Tables, BlocksNotShared, Current
  <2>2. \A k \in 1 .. Piece : Within + k - 1 \in Cell
    BY <1>3, FsConstants DEF Cell
  <2>3. [k \in 1 .. Piece |-> disk[Current][Within + k - 1]] \in [1 .. Piece -> Byte]
    BY <1>2, <2>1, <2>2 DEF Types
  <2>4. [k \in 1 .. Piece |-> disk[Current][Within + k - 1]] \in Seq(Byte)
    BY <1>3, <2>3, SeqDef
  <2> QED BY <1>1, <1>2, <2>4, ConcatProperties DEF Types
<1>8. Types'
  BY <1>1, <1>2, <1>6, <1>7 DEF Types
<1>9. Tables'
  BY <1>1, TablesStay DEF FsInv
<1>10. CallFits'
  <2>1. (Pos + Piece) + (call.count - (call.done + Piece)) <= inodes[Ino].size
        /\ call.done + Piece <= call.count
    BY <1>2, <1>3, <1>4
  <2>2. inodes'[Ino'].size = inodes[Ino].size /\ fds'[call'.fd].used
    BY <1>1, <1>2, <1>3, <1>6
  <2> QED BY <1>1, <1>6, <2>1, <2>2 DEF CallFits
<1>11. \A i : Length(i)' = Length(i) /\ Length(i) = inodes[i].size
  BY <1>1, <1>6, IdleLength
<1>12. \A h \in Fd : fds'[h].used => fds[h].used /\ fds'[h].inode = fds[h].inode
                                    /\ fds'[h].offset <= Length(fds[h].inode)
  <2>1. fds'[call.fd].offset = Pos + Piece /\ fds[call.fd].inode = Ino
    BY <1>6 DEF Pos, Ino
  <2> QED BY <1>3, <1>5, <1>6, <1>11, <2>1, SizesAre
<1> QED BY <1>1, <1>8, <1>9, <1>10, <1>11, <1>12, LengthsStay

\* fs_write begins within its file.
LEMMA WriteBeginKeepsInv ==
    ASSUME FsInv, NEW h \in Fd, NEW buf \in Buffers, fs_write(h, buf)
    PROVE  FsInv'
<1>1. /\ fds[h].used /\ fds[h].offset <= MaxBytes /\ call.op = "none"
      /\ call' = [op |-> "write", fd |-> h, buf |-> buf, done |-> 0,
                  count |-> Smaller(Len(buf), MaxBytes - fds[h].offset)]
      /\ UNCHANGED <<inode_bitmap, block_bitmap, inodes, root_dir, fds, disk, out>>
  BY DEF fs_write, IsFile, Idle
<1>2. Len(buf) \in Nat /\ fds[h].offset \in Nat /\ MaxBytes \in Nat
  BY BehindHandle, FsAssumption, FsConstants, LenProperties
<1>3. /\ Smaller(Len(buf), MaxBytes - fds[h].offset) \in Nat
      /\ Smaller(Len(buf), MaxBytes - fds[h].offset) <= Len(buf)
      /\ fds[h].offset + Smaller(Len(buf), MaxBytes - fds[h].offset) <= MaxBytes
  BY <1>1, <1>2 DEF Smaller
<1>4. call' \in Calls
  BY <1>1, <1>3 DEF Calls
<1>5. Types'
  BY <1>1, <1>4, TypeIs DEF Types, FsInv
<1>6. /\ call'.op = "write" /\ call'.fd = h /\ call'.buf = buf /\ call'.done = 0
      /\ call'.count = Smaller(Len(buf), MaxBytes - fds[h].offset)
  BY <1>1
<1>7. Pos' = fds[h].offset /\ Ino' = fds[h].inode
  BY <1>1, <1>6 DEF Pos, Ino
<1>8. CallFits'
  BY <1>1, <1>2, <1>3, <1>6, <1>7 DEF CallFits
<1>9. Tables'
  BY <1>1, TablesStay DEF FsInv
<1>10. \A i : Length(i) = inodes[i].size
  BY <1>1, IdleLength
<1>11. fds[h].offset <= inodes[fds[h].inode].size /\ inodes[fds[h].inode].size \in Nat
  BY <1>1, <1>10, SizesAre, BehindHandle
<1>12. \A i : Length(i)' = inodes[i].size
  BY <1>1, <1>2, <1>7, <1>11 DEF Length
<1> QED BY <1>1, <1>5, <1>8, <1>9, <1>10, <1>12, LengthsStay, SizesAre

\* The return of fs_write stores the length the bytes already have.
LEMMA WriteReturnKeepsInv ==
    ASSUME FsInv, fs_write_return
    PROVE  FsInv'
<1> DEFINE size == IF Pos > inodes[Ino].size THEN Pos ELSE inodes[Ino].size
<1>1. /\ call.op = "write" /\ call' = NoCall /\ call'.op = "none"
      /\ inodes' = [inodes EXCEPT ![Ino] = [inodes[Ino] EXCEPT !.size = size]]
      /\ UNCHANGED <<inode_bitmap, block_bitmap, root_dir, fds, disk, out>>
  BY DEF fs_write_return, NoCall
<1>2. Types /\ call.fd \in Fd /\ fds[call.fd].used
  BY <1>1, TypeIs DEF FsInv, Types, Calls, CallFits
<1>3. /\ Pos \in Nat /\ Pos <= MaxBytes /\ Ino \in Files /\ Ino \in Inode
      /\ inodes[Ino] \in INodes /\ inodes[Ino].size \in Nat /\ inodes[Ino].size <= MaxBytes
  BY <1>2, BehindHandle DEF Pos, Ino
<1>4. size \in 0 .. MaxBytes /\ size = Length(Ino)
  BY <1>1, <1>3, FsConstants DEF Length
<1> HIDE DEF size
<1>5. /\ inodes' \in [Inode -> INodes]
      /\ inodes'[Ino].size = size /\ \A i \in Inode \ {Ino} : inodes'[i] = inodes[i]
      /\ \A i \in Inode : /\ inodes'[i].used = inodes[i].used /\ inodes'[i].type = inodes[i].type
                          /\ inodes'[i].blocks = inodes[i].blocks
  <2>1. [inodes[Ino] EXCEPT !.size = size] \in INodes
    BY <1>3, <1>4 DEF INodes
  <2>2. inodes \in [Inode -> INodes]
    BY <1>2 DEF Types
  <2>3. inodes' \in [Inode -> INodes]
    BY <1>1, <1>3, <2>1, <2>2
  <2>4. inodes'[Ino] = [inodes[Ino] EXCEPT !.size = size] /\ \A i \in Inode \ {Ino} : inodes'[i] = inodes[i]
    BY <1>1, <1>3, <2>2
  <2>5. /\ inodes'[Ino].size = size /\ inodes'[Ino].used = inodes[Ino].used
        /\ inodes'[Ino].type = inodes[Ino].type /\ inodes'[Ino].blocks = inodes[Ino].blocks
    BY <1>3, <2>4 DEF INodes
  <2> QED BY <2>3, <2>4, <2>5
<1>6. Types'
  BY <1>1, <1>2, <1>5, FsConstants DEF Types
<1>7. Files' = Files /\ Files \subseteq Inode
  BY <1>1, <1>2 DEF Files, Types
<1>8. Tables'
  <2>1. BitmapsMatchTables'
    <3>1. Bits /\ FsTypeOK /\ FsTypeOK'
      BY <1>6, TypeIs, BitsAre DEF FsInv, Tables
    <3>2. Bits'
      BY <1>1, <1>5, <1>7, <3>1 DEF Bits
    <3> QED BY <3>1, <3>2, BitsAre
  <2>2. BlocksNotShared'
    BY <1>5, <1>7 DEF FsInv, Tables, BlocksNotShared
  <2>3. DirectoryMatchesInodes'
    BY <1>1, <1>5, <1>7 DEF FsInv, Tables, DirectoryMatchesInodes
  <2> QED BY <2>1, <2>2, <2>3 DEF Tables
<1>9. CallFits'
  BY <1>1 DEF CallFits
<1>10. \A i \in Files : Length(i)' = Length(i)
  <2>1. \A i : Length(i)' = inodes'[i].size
    BY <1>1, IdleLength
  <2>2. \A i \in Files \ {Ino} : Length(i) = inodes[i].size
    BY DEF Length
  <2> QED BY <1>4, <1>5, <1>7, <2>1, <2>2
<1> QED BY <1>1, <1>5, <1>6, <1>7, <1>8, <1>9, <1>10, LengthsStay, SizesAre

\* A piece copied into a block: bytes of the caller's buffer.
LEMMA CopiedIsData ==
    ASSUME FsInv, call.op = "write", call.done < call.count, NEW old \in [Cell -> Byte]
    PROVE  Copied(old) \in [Cell -> Byte]
<1>1. /\ call.buf \in Seq(Byte) /\ call.count <= Len(call.buf) /\ Len(call.buf) \in Nat
  <2>1. call.buf \in Buffers \cup {<< >>}
    BY TypeIs DEF FsInv, Types, Calls
  <2>2. call.buf \in Seq(Byte)
    BY <2>1, FsAssumption, EmptySeq
  <2> QED BY <2>2, LenProperties DEF FsInv, CallFits
<1>2. /\ Piece \in Nat /\ Piece <= call.count - call.done /\ Within \in Nat
      /\ call.done \in Nat /\ call.count \in Nat
  BY PieceIs, FsConstants
<1>3. ASSUME NEW c \in Cell, c \in Within .. (Within + Piece - 1)
      PROVE  call.buf[call.done + c - Within + 1] \in Byte
  <2>1. c \in Nat /\ Within <= c /\ c <= Within + Piece - 1
    BY <1>2, <1>3, FsConstants
  <2>2. call.done + c - Within + 1 \in 1 .. Len(call.buf)
    BY <1>1, <1>2, <2>1
  <2> QED BY <1>1, <2>2, ElementOfSeq
<1> QED BY <1>3 DEF Copied

\* The blocks below a length that grows by a piece: those it had, and the one
\* that is being written.
LEMMA GrownLength ==
    ASSUME NEW n \in Nat \ {0}, NEW index \in Nat, NEW within \in Nat, NEW piece \in Nat,
           NEW length \in Nat, NEW s \in Nat,
           1 <= piece, within + piece <= n, index * n + within <= length
    PROVE  LET pos == index * n + within
               grown == IF pos + piece > length THEN pos + piece ELSE length
           IN  s * n < grown <=> s * n < length \/ s = index
<1>1. /\ s * n \in Nat /\ index * n \in Nat
      /\ s < index => s * n + n <= index * n
      /\ index < s => index * n + n <= s * n
  BY BlockOrder
<1>2. CASE s < index
  BY <1>1, <1>2
<1>3. CASE s = index
  BY <1>1, <1>3
<1>4. CASE index < s
  BY <1>1, <1>4
<1> QED BY <1>2, <1>3, <1>4

\* One iteration of fs_write: where it stands, and how it moves on.
LEMMA WritePosition ==
    ASSUME FsInv, fs_write_block
    PROVE  /\ Types /\ call.fd \in Fd /\ fds[call.fd].used
           /\ Pos \in Nat /\ Ino \in Files /\ Ino \in Inode
           /\ inodes[Ino] \in INodes /\ inodes[Ino].size \in Nat /\ inodes \in [Inode -> INodes]
           /\ Piece \in Nat /\ Index \in Nat /\ Within \in Nat /\ 1 <= Piece
           /\ Piece <= call.count - call.done /\ Within + Piece <= FS_BLOCK_SIZE
           /\ Pos = Index * FS_BLOCK_SIZE + Within
           /\ call.done \in Nat /\ call.count \in Nat
           /\ call.count <= Len(call.buf) /\ Pos + (call.count - call.done) <= MaxBytes
           /\ Pos + Piece <= MaxBytes
           /\ fds' \in [Fd -> FdRecs] /\ call' \in Calls
           /\ \A h \in Fd : fds'[h].used = fds[h].used /\ fds'[h].inode = fds[h].inode
           /\ \A h \in Fd \ {call.fd} : fds'[h] = fds[h]
           /\ Pos' = Pos + Piece /\ Ino' = Ino
           /\ call'.op = call.op /\ call'.fd = call.fd /\ call'.buf = call.buf
           /\ call'.count = call.count /\ call'.done = call.done + Piece
           /\ Index \in Slot /\ Current \in Block
<1>1. /\ call.op = "write" /\ call.done < call.count /\ Index < FS_DIRECT
      /\ fds' = Advanced /\ call' = Progress
      /\ UNCHANGED <<inode_bitmap, root_dir, out>>
  BY DEF fs_write_block, CanWrite
<1>2. Types /\ call.fd \in Fd /\ fds[call.fd].used
  BY <1>1, TypeIs DEF FsInv, Types, Calls, CallFits
<1>3. /\ Pos \in Nat /\ Ino \in Files /\ Ino \in Inode
      /\ inodes[Ino] \in INodes /\ inodes[Ino].size \in Nat
      /\ inodes \in [Inode -> INodes]
  BY <1>2, BehindHandle DEF Pos, Ino, Types
<1>4. /\ Piece \in Nat /\ Index \in Nat /\ Within \in Nat /\ 1 <= Piece
      /\ Piece <= call.count - call.done /\ Within + Piece <= FS_BLOCK_SIZE
      /\ Pos = Index * FS_BLOCK_SIZE + Within
      /\ call.done \in Nat /\ call.count \in Nat
  BY <1>1, PieceIs, FsConstants
<1>5. /\ call.count <= Len(call.buf) /\ Pos + (call.count - call.done) <= MaxBytes
      /\ Pos + Piece <= MaxBytes
  BY <1>1, <1>3, <1>4, FsConstants DEF FsInv, CallFits
<1>6. /\ fds' \in [Fd -> FdRecs] /\ call' \in Calls
      /\ \A h \in Fd : fds'[h].used = fds[h].used /\ fds'[h].inode = fds[h].inode
      /\ \A h \in Fd \ {call.fd} : fds'[h] = fds[h]
      /\ Pos' = Pos + Piece /\ Ino' = Ino
      /\ call'.op = call.op /\ call'.fd = call.fd /\ call'.buf = call.buf
      /\ call'.count = call.count /\ call'.done = call.done + Piece
  BY <1>1, <1>5, AdvancedIs
<1>7. Index \in Slot /\ Current \in Block
  <2>1. Index \in Slot
    BY <1>1, <1>4, FsConstants DEF Slot
  <2> QED BY <1>3, <2>1 DEF Current, INodes
<1> QED BY <1>2, <1>3, <1>4, <1>5, <1>6, <1>7

\* It fills the block it has, or takes one that is free.
LEMMA WrittenBlock ==
    ASSUME FsInv, fs_write_block
    PROVE  \E b \in Block \ Metadata, old \in [Cell -> Byte] :
             /\ Current # 0 => b = Current /\ old = disk[b] /\ UNCHANGED <<block_bitmap, inodes>>
             /\ Current = 0 => /\ b \notin block_bitmap /\ block_bitmap' = block_bitmap \cup {b}
                               /\ inodes' = [inodes EXCEPT ![Ino].blocks[Index] = b]
             /\ disk' = [disk EXCEPT ![b] = Copied(old)]
             /\ Copied(old) \in [Cell -> Byte]
             /\ inodes' \in [Inode -> INodes]
             /\ \A i \in Inode : /\ inodes'[i].used = inodes[i].used /\ inodes'[i].type = inodes[i].type
                                 /\ inodes'[i].size = inodes[i].size
             /\ \A i \in Inode, s \in Slot :
                   inodes'[i].blocks[s] = IF i = Ino /\ s = Index THEN b ELSE inodes[i].blocks[s]
<1>1. call.op = "write" /\ call.done < call.count
  BY DEF fs_write_block, CanWrite
<1>2. Types
  BY WritePosition
<1>3. Ino \in Files /\ Ino \in Inode /\ inodes[Ino] \in INodes /\ inodes \in [Inode -> INodes]
  BY WritePosition
<1>7. Index \in Slot /\ Current \in Block
  BY WritePosition
<1>8. PICK b \in Block \ Metadata, old \in [Cell -> Byte] :
        /\ Current # 0 => b = Current /\ old = disk[b] /\ UNCHANGED <<block_bitmap, inodes>>
        /\ Current = 0 => /\ b \notin block_bitmap /\ block_bitmap' = block_bitmap \cup {b}
                          /\ inodes' = [inodes EXCEPT ![Ino].blocks[Index] = b]
        /\ disk' = [disk EXCEPT ![b] = Copied(old)]
  <2>1. CASE Current # 0
    <3>1. Current \in Block \ Metadata
      BY <1>3, <1>7, <2>1 DEF FsInv, Tables, BlocksNotShared, Current
    <3>2. disk' = [disk EXCEPT ![Current] = Copied(disk[Current])] /\ UNCHANGED <<block_bitmap, inodes>>
      BY <2>1 DEF fs_write_block
    <3>3. disk[Current] \in [Cell -> Byte]
      BY <1>2, <3>1 DEF Types
    <3> QED BY <2>1, <3>1, <3>2, <3>3
  <2>2. CASE Current = 0
    <3>1. PICK b \in FreeBlocks :
            /\ block_bitmap' = block_bitmap \cup {b}
            /\ inodes' = [inodes EXCEPT ![Ino].blocks[Index] = b]
            /\ disk' = [disk EXCEPT ![b] = Copied(ZeroBlock)]
      BY <2>2 DEF fs_write_block
    <3>2. b \in Block \ Metadata /\ b \notin block_bitmap /\ ZeroBlock \in [Cell -> Byte]
      BY <3>1, FsConstants DEF FreeBlocks
    <3> QED BY <2>2, <3>1, <3>2
  <2> QED BY <2>1, <2>2
<1>9. Copied(old) \in [Cell -> Byte]
  BY <1>1, CopiedIsData
<1>10. /\ inodes' \in [Inode -> INodes]
       /\ \A i \in Inode : /\ inodes'[i].used = inodes[i].used /\ inodes'[i].type = inodes[i].type
                           /\ inodes'[i].size = inodes[i].size
       /\ \A i \in Inode, s \in Slot :
             inodes'[i].blocks[s] = IF i = Ino /\ s = Index THEN b ELSE inodes[i].blocks[s]
  <2>1. CASE Current # 0
    BY <1>3, <1>8, <2>1 DEF Current
  <2>2. CASE Current = 0
    <3> DEFINE blocks == [inodes[Ino].blocks EXCEPT ![Index] = b]
               new == [inodes[Ino] EXCEPT !.blocks = blocks]
    <3>1. inodes' = [inodes EXCEPT ![Ino] = new]
      BY <1>8, <2>2
    <3>2. /\ blocks \in [Slot -> Block]
          /\ \A s \in Slot : blocks[s] = IF s = Index THEN b ELSE inodes[Ino].blocks[s]
      BY <1>3, <1>7, <1>8 DEF INodes
    <3> HIDE DEF blocks
    <3>3. /\ new \in INodes /\ new.blocks = blocks /\ new.used = inodes[Ino].used
          /\ new.type = inodes[Ino].type /\ new.size = inodes[Ino].size
      BY <1>3, <3>2 DEF INodes
    <3> HIDE DEF new
    <3>4. /\ inodes' \in [Inode -> INodes] /\ inodes'[Ino] = new
          /\ \A i \in Inode \ {Ino} : inodes'[i] = inodes[i]
      BY <1>3, <3>1, <3>3
    <3> QED BY <1>3, <3>2, <3>3, <3>4
  <2> QED BY <2>1, <2>2
<1> QED BY <1>8, <1>9, <1>10

\* A file is then as long as before, or reaches to the new position.
LEMMA WrittenLength ==
    ASSUME FsInv, fs_write_block, NEW i \in Files
    PROVE  /\ Length(i) \in Nat /\ (i = Ino => Pos <= Length(i))
           /\ Length(i)' = IF i = Ino /\ Pos + Piece > Length(i) THEN Pos + Piece ELSE Length(i)
<1>1. call.op = "write"
  BY DEF fs_write_block
<1>2. /\ Pos \in Nat /\ Piece \in Nat /\ Ino \in Files /\ inodes \in [Inode -> INodes]
      /\ Pos' = Pos + Piece /\ Ino' = Ino /\ call'.op = call.op /\ i \in Inode
  BY WritePosition DEF Types, Files
<1>3. inodes[i].size \in Nat /\ inodes'[i].size = inodes[i].size
  BY <1>2, WrittenBlock, FsConstants DEF INodes
<1>4. Length(i) = IF Ino = i /\ Pos > inodes[i].size THEN Pos ELSE inodes[i].size
  BY <1>1 DEF Length
<1>5. Length(i)' = IF Ino = i /\ Pos + Piece > inodes[i].size THEN Pos + Piece ELSE inodes[i].size
  BY <1>1, <1>2, <1>3 DEF Length
<1> QED BY <1>2, <1>3, <1>4, <1>5

\* One iteration of fs_write, into the block it has or takes the first free one.
LEMMA WriteBlockKeepsInv ==
    ASSUME FsInv, fs_write_block
    PROVE  FsInv'
<1>1. /\ call.op = "write" /\ call.done < call.count
      /\ UNCHANGED <<inode_bitmap, root_dir, out>>
  BY DEF fs_write_block, CanWrite
<1>2. Types /\ call.fd \in Fd /\ fds[call.fd].used
  BY WritePosition
<1>3. /\ Pos \in Nat /\ Ino \in Files /\ Ino \in Inode
      /\ inodes[Ino] \in INodes /\ inodes[Ino].size \in Nat
      /\ inodes \in [Inode -> INodes]
  BY WritePosition
<1>4. /\ Piece \in Nat /\ Index \in Nat /\ Within \in Nat /\ 1 <= Piece
      /\ Piece <= call.count - call.done /\ Within + Piece <= FS_BLOCK_SIZE
      /\ Pos = Index * FS_BLOCK_SIZE + Within
      /\ call.done \in Nat /\ call.count \in Nat
  BY WritePosition
<1>5. call.count <= Len(call.buf) /\ Pos + (call.count - call.done) <= MaxBytes
  BY WritePosition
<1>6. /\ fds' \in [Fd -> FdRecs] /\ call' \in Calls
      /\ \A h \in Fd : fds'[h].used = fds[h].used /\ fds'[h].inode = fds[h].inode
      /\ \A h \in Fd \ {call.fd} : fds'[h] = fds[h]
      /\ Pos' = Pos + Piece /\ Ino' = Ino
      /\ call'.op = call.op /\ call'.fd = call.fd /\ call'.buf = call.buf
      /\ call'.count = call.count /\ call'.done = call.done + Piece
  BY WritePosition
<1>7. Index \in Slot /\ Current \in Block
  BY WritePosition
<1>8. PICK b \in Block \ Metadata :
        /\ Current # 0 => b = Current /\ UNCHANGED <<block_bitmap, inodes>>
        /\ Current = 0 => b \notin block_bitmap /\ block_bitmap' = block_bitmap \cup {b}
        /\ \E new \in [Cell -> Byte] : disk' = [disk EXCEPT ![b] = new]
        /\ inodes' \in [Inode -> INodes]
        /\ \A i \in Inode : /\ inodes'[i].used = inodes[i].used /\ inodes'[i].type = inodes[i].type
                            /\ inodes'[i].size = inodes[i].size
        /\ \A i \in Inode, s \in Slot :
              inodes'[i].blocks[s] = IF i = Ino /\ s = Index THEN b ELSE inodes[i].blocks[s]
  BY WrittenBlock
<1>9. b # 0 /\ disk' \in [Block \ Metadata -> [Cell -> Byte]]
  BY <1>2, <1>8, FsConstants DEF Types
<1>10. /\ inodes' \in [Inode -> INodes]
       /\ \A i \in Inode : /\ inodes'[i].used = inodes[i].used /\ inodes'[i].type = inodes[i].type
                           /\ inodes'[i].size = inodes[i].size
       /\ \A i \in Inode, s \in Slot :
             inodes'[i].blocks[s] = IF i = Ino /\ s = Index THEN b ELSE inodes[i].blocks[s]
  BY <1>8
<1>11. block_bitmap' = block_bitmap \cup {b} /\ (Current = 0 => b \notin block_bitmap)
  <2>1. Bits
    BY <1>2, TypeIs, BitsAre DEF FsInv, Tables, Bits, BitmapsMatchTables
  <2>2. Current # 0 => Current \in block_bitmap
    BY <1>3, <1>7, <2>1 DEF Bits, Current
  <2> QED BY <1>8, <2>2
<1>12. Types'
  BY <1>1, <1>2, <1>6, <1>8, <1>9, <1>10, <1>11 DEF Types
<1>13. Files' = Files /\ Files \subseteq Inode /\ FsTypeOK /\ FsTypeOK'
  BY <1>1, <1>2, <1>12, TypeIs DEF Files, Types
<1>14. Tables'
  <2>1. Bits
    BY <1>13, BitsAre DEF FsInv, Tables
  <2>2. \A c \in Block : c \in block_bitmap' <=>
            c \in Metadata \/ \E i \in Files', s \in Slot : c = inodes'[i].blocks[s]
    <3>1. ASSUME NEW c \in Block, c \in block_bitmap'
          PROVE  c \in Metadata \/ \E i \in Files', s \in Slot : c = inodes'[i].blocks[s]
      <4>1. CASE c = b
        BY <1>3, <1>7, <1>10, <1>13, <4>1
      <4>2. CASE c # b /\ c \notin Metadata
        <5>1. PICK i \in Files, s \in Slot : c = inodes[i].blocks[s]
          BY <1>11, <2>1, <3>1, <4>2 DEF Bits
        <5>2. ~(i = Ino /\ s = Index)
          BY <1>8, <4>2, <5>1, FsConstants DEF Current
        <5> QED BY <1>10, <1>13, <5>1, <5>2
      <4> QED BY <4>1, <4>2
    <3>2. ASSUME NEW c \in Block, c \in Metadata \/ \E i \in Files', s \in Slot : c = inodes'[i].blocks[s]
          PROVE  c \in block_bitmap'
      BY <1>10, <1>11, <1>13, <2>1, <3>2 DEF Bits
    <3> QED BY <3>1, <3>2
  <2>3. BitmapsMatchTables'
    BY <1>1, <1>10, <1>13, <2>1, <2>2, BitsAre DEF Bits
  <2>4. BlocksNotShared'
    <3>1. ASSUME NEW i \in Files, NEW s \in Slot, inodes[i].blocks[s] = b, ~(i = Ino /\ s = Index)
          PROVE  FALSE
      <4>1. CASE Current = 0
        BY <1>8, <1>11, <1>13, <2>1, <3>1, <4>1 DEF Bits
      <4>2. CASE Current # 0
        BY <1>3, <1>7, <1>8, <1>9, <3>1, <4>2 DEF FsInv, Tables, BlocksNotShared, Current
      <4> QED BY <4>1, <4>2
    <3>2. ASSUME NEW i \in Files, NEW j \in Files, NEW s \in Slot, NEW t \in Slot,
                 inodes'[i].blocks[s] # 0
          PROVE  /\ inodes'[i].blocks[s] \notin Metadata
                 /\ inodes'[j].blocks[t] = inodes'[i].blocks[s] => i = j /\ s = t
      <4>1. CASE i = Ino /\ s = Index
        BY <1>8, <1>10, <1>13, <3>1, <4>1
      <4>2. CASE ~(i = Ino /\ s = Index)
        <5>1. inodes'[i].blocks[s] = inodes[i].blocks[s]
          BY <1>10, <1>13, <4>2
        <5>2. CASE j = Ino /\ t = Index
          BY <1>8, <1>10, <1>13, <3>1, <3>2, <4>2, <5>1, <5>2 DEF FsInv, Tables, BlocksNotShared
        <5>3. CASE ~(j = Ino /\ t = Index)
          BY <1>10, <1>13, <3>2, <5>1, <5>3 DEF FsInv, Tables, BlocksNotShared
        <5> QED BY <5>2, <5>3
      <4> QED BY <4>1, <4>2
    <3> QED BY <1>13, <3>2 DEF BlocksNotShared
  <2>5. DirectoryMatchesInodes'
    BY <1>1, <1>10, <1>13 DEF FsInv, Tables, DirectoryMatchesInodes
  <2> QED BY <2>3, <2>4, <2>5 DEF Tables
<1>15. CallFits'
  <2>1. call.done + Piece <= call.count
        /\ (Pos + Piece) + (call.count - (call.done + Piece)) <= MaxBytes
    BY <1>3, <1>4, <1>5, FsConstants
  <2>2. fds'[call'.fd].used
    BY <1>2, <1>6
  <2> QED BY <1>1, <1>5, <1>6, <2>1, <2>2 DEF CallFits
<1>16. ASSUME NEW i \in Files
       PROVE  /\ Length(i) \in Nat /\ (i = Ino => Pos <= Length(i))
              /\ Length(i)' = IF i = Ino /\ Pos + Piece > Length(i) THEN Pos + Piece ELSE Length(i)
  BY WrittenLength
<1>17. OpenFilesExist'
  <2>1. ASSUME NEW h \in Fd, NEW i \in Files, fds[h].used, fds[h].inode = i
        PROVE  fds'[h].inode = i /\ fds'[h].offset <= Length(i)'
    <3>1. fds[h].offset <= Length(i) /\ fds[h].offset \in Nat /\ fds'[h].inode = i
      BY <1>6, <2>1, BehindHandle, SizesAre
    <3>2. CASE h = call.fd
      <4>1. fds'[h].offset = Pos + Piece /\ i = Ino
        BY <1>6, <2>1, <3>2 DEF Pos, Ino
      <4> QED BY <1>3, <1>4, <1>16, <3>1, <4>1
    <3>3. CASE h # call.fd
      <4>1. fds'[h].offset = fds[h].offset
        BY <1>6, <3>3
      <4> QED BY <1>3, <1>4, <1>16, <3>1, <4>1
    <3> QED BY <3>2, <3>3
  <2>2. \A h \in Fd : fds'[h].used => fds[h].used /\ fds[h].inode \in Files
    BY <1>6, BehindHandle
  <2> QED BY <1>13, <2>1, <2>2 DEF OpenFilesExist, Length
<1>18. SizeIsBacked'
  <2>1. ASSUME NEW i \in Files, NEW s \in Slot
        PROVE  inodes'[i].blocks[s] # 0 <=> s * FS_BLOCK_SIZE < Length(i)'
    <3>1. inodes[i].blocks[s] # 0 <=> s * FS_BLOCK_SIZE < Length(i)
      BY DEF FsInv, SizeIsBacked
    <3>2. CASE i = Ino
      <4> DEFINE length == Length(i)
      <4>1. inodes'[i].blocks[s] = IF s = Index THEN b ELSE inodes[i].blocks[s]
        BY <1>10, <1>13, <3>2
      <4>2. s \in Nat /\ FS_BLOCK_SIZE \in Nat \ {0} /\ length \in Nat
        BY <1>16, FsConstants
      <4>3. Index * FS_BLOCK_SIZE + Within <= length
        BY <1>4, <1>16, <3>2
      <4>4. Length(i)' = IF Index * FS_BLOCK_SIZE + Within + Piece > length
                           THEN Index * FS_BLOCK_SIZE + Within + Piece ELSE length
        BY <1>4, <1>16, <3>2
      <4> HIDE DEF length
      <4>5. LET pos == Index * FS_BLOCK_SIZE + Within
                grown == IF pos + Piece > length THEN pos + Piece ELSE length
            IN  s * FS_BLOCK_SIZE < grown <=> s * FS_BLOCK_SIZE < length \/ s = Index
        BY <1>4, <4>2, <4>3, GrownLength
      <4>6. s * FS_BLOCK_SIZE < Length(i)' <=> s * FS_BLOCK_SIZE < length \/ s = Index
        BY <4>4, <4>5
      <4> QED BY <1>9, <3>1, <4>1, <4>6 DEF length
    <3>3. CASE i # Ino
      BY <1>10, <1>13, <1>16, <3>1, <3>3
    <3> QED BY <3>2, <3>3
  <2> QED BY <1>13, <2>1 DEF SizeIsBacked
<1> QED BY <1>13, <1>14, <1>15, <1>17, <1>18 DEF FsInv

-----------------------------------------------------------------------------
\* Every call, and every iteration of one, keeps the inductive invariant.
LEMMA FsNextInv == FsInv /\ [FsNext]_fsvars => FsInv'
<1> SUFFICES ASSUME FsInv, [FsNext]_fsvars PROVE FsInv'
  OBVIOUS
<1>1. CASE UNCHANGED fsvars
  <2>1. /\ inode_bitmap' = inode_bitmap /\ block_bitmap' = block_bitmap /\ inodes' = inodes
        /\ root_dir' = root_dir /\ fds' = fds /\ disk' = disk /\ call' = call /\ out' = out
    BY <1>1 DEF fsvars
  <2>2. Types' /\ Tables'
    BY <2>1, TypeIs, TablesStay DEF FsInv, Types
  <2>3. CallFits'
    BY <2>1 DEF FsInv, CallFits, Pos, Ino
  <2>4. OpenFilesExist' /\ SizeIsBacked'
    BY <2>1 DEF FsInv, OpenFilesExist, SizeIsBacked, Files, Length, Pos, Ino
  <2> QED BY <2>2, <2>3, <2>4, TypeIs DEF FsInv
<1>2. CASE FsNext
  BY <1>2, CreateKeepsInv, OpenCloseKeepsInv, UnlinkKeepsInv, ReadKeepsInv, ReadBlockKeepsInv,
     WriteBeginKeepsInv, WriteBlockKeepsInv, WriteReturnKeepsInv DEF FsNext
<1> QED BY <1>1, <1>2

\* The inductive invariant holds in every reachable state.
LEMMA FsAlways == FsSpec => []FsInv
  BY FsInitInv, FsNextInv, PTL DEF FsSpec

\* Every structure keeps its type: no index leaves inode_t.blocks or a block, and
\* no read returns anything but bytes of the disk.
THEOREM FsTypeCorrect == FsSpec => []FsTypeOK
<1>1. FsInv => FsTypeOK
  BY DEF FsInv
<1> QED BY <1>1, FsAlways, PTL

\* Nothing leaks, and nothing in use is free.
THEOREM BitmapsCorrect == FsSpec => []BitmapsMatchTables
<1>1. FsInv => BitmapsMatchTables
  BY DEF FsInv, Tables
<1> QED BY <1>1, FsAlways, PTL

\* No data block belongs to two files.
THEOREM BlocksExclusive == FsSpec => []BlocksNotShared
<1>1. FsInv => BlocksNotShared
  BY DEF FsInv, Tables
<1> QED BY <1>1, FsAlways, PTL

\* Names and files correspond one to one.
THEOREM DirectoryCorrect == FsSpec => []DirectoryMatchesInodes
<1>1. FsInv => DirectoryMatchesInodes
  BY DEF FsInv, Tables
<1> QED BY <1>1, FsAlways, PTL

\* No descriptor outlives its file or points past its end.
THEOREM HandlesCorrect == FsSpec => []OpenFilesExist
<1>1. FsInv => OpenFilesExist
  BY DEF FsInv
<1> QED BY <1>1, FsAlways, PTL

\* Every byte of a file has a block, also after a write that ran out of them.
THEOREM SizesCorrect == FsSpec => []SizeIsBacked
<1>1. FsInv => SizeIsBacked
  BY DEF FsInv
<1> QED BY <1>1, FsAlways, PTL
=============================================================================
