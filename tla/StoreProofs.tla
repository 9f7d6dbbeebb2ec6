----------------------------- MODULE StoreProofs -----------------------------
(***************************************************************************)
(* FileSystem implements FileStore: whatever the geometry of the disk and  *)
(* whatever is written, reading returns what was written under that name.  *)
(***************************************************************************)
EXTENDS FileSystemProofs

\* Names lead to files by way of a directory dir in which no two entries in use
\* have the same name or the same inode.
WellFormed(dir) ==
    /\ \A e \in Entry : dir[e].used => dir[e].name \in Name
    /\ \A e, f \in Entry :
          dir[e].used /\ dir[f].used
          /\ (dir[e].inode = dir[f].inode \/ dir[e].name = dir[f].name) => e = f

\* Stored and Handles as functions of the structures they are read from; text
\* has the contents behind each inode.
FilesOf(dir, text) ==
    [n \in {m \in Name : \E e \in Entry : dir[e].used /\ dir[e].name = m} |->
        text[dir[CHOOSE e \in Entry : dir[e].used /\ dir[e].name = n].inode]]
HandlesOf(table, dir) ==
    [h \in {g \in Fd : table[g].used} |->
        [name |-> dir[CHOOSE e \in Entry : dir[e].used /\ dir[e].inode = table[h].inode].name,
         offset |-> table[h].offset]]

Text == [i \in Inode |-> Contents(i)]

-----------------------------------------------------------------------------
\* CHOOSE finds the entry in use with that name, or that inode: there is one.
LEMMA EntryChosen ==
    ASSUME NEW dir, WellFormed(dir), NEW e \in Entry, dir[e].used
    PROVE  /\ (CHOOSE x \in Entry : dir[x].used /\ dir[x].name = dir[e].name) = e
           /\ (CHOOSE x \in Entry : dir[x].used /\ dir[x].inode = dir[e].inode) = e
  BY DEF WellFormed

\* What a function of names or of descriptors says of an entry in use.
LEMMA FileAt ==
    ASSUME NEW dir, NEW text, WellFormed(dir), NEW e \in Entry, dir[e].used
    PROVE  /\ dir[e].name \in DOMAIN FilesOf(dir, text)
           /\ FilesOf(dir, text)[dir[e].name] = text[dir[e].inode]
<1>1. dir[e].name \in {m \in Name : \E x \in Entry : dir[x].used /\ dir[x].name = m}
  BY DEF WellFormed
<1>2. (CHOOSE x \in Entry : dir[x].used /\ dir[x].name = dir[e].name) = e
  BY EntryChosen
<1> QED BY <1>1, <1>2 DEF FilesOf

\* The same of a descriptor in use.
LEMMA HandleAt ==
    ASSUME NEW table, NEW dir, WellFormed(dir), NEW h \in Fd, NEW e \in Entry,
           table[h].used, dir[e].used, dir[e].inode = table[h].inode
    PROVE  /\ h \in DOMAIN HandlesOf(table, dir)
           /\ HandlesOf(table, dir)[h] = [name |-> dir[e].name, offset |-> table[h].offset]
<1>1. (CHOOSE x \in Entry : dir[x].used /\ dir[x].inode = table[h].inode) = e
  BY EntryChosen
<1> QED BY <1>1 DEF HandlesOf

\* No other function says the same.
LEMMA FilesUnique ==
    ASSUME NEW dir, NEW text, NEW f, WellFormed(dir),
           f = [n \in DOMAIN f |-> f[n]],
           DOMAIN f = {m \in Name : \E e \in Entry : dir[e].used /\ dir[e].name = m},
           \A e \in Entry : dir[e].used => f[dir[e].name] = text[dir[e].inode]
    PROVE  FilesOf(dir, text) = f
<1>1. ASSUME NEW n \in DOMAIN f
      PROVE  f[n] = text[dir[CHOOSE e \in Entry : dir[e].used /\ dir[e].name = n].inode]
  <2>1. PICK e \in Entry : dir[e].used /\ dir[e].name = n
    BY <1>1
  <2>2. (CHOOSE x \in Entry : dir[x].used /\ dir[x].name = n) = e
    BY <2>1, EntryChosen
  <2> QED BY <2>1, <2>2
<1> QED BY <1>1 DEF FilesOf

\* Likewise for descriptors.
LEMMA HandlesUnique ==
    ASSUME NEW table, NEW dir, NEW f, WellFormed(dir),
           f = [h \in DOMAIN f |-> f[h]],
           DOMAIN f = {g \in Fd : table[g].used},
           \A h \in Fd : table[h].used =>
              \E e \in Entry : /\ dir[e].used /\ dir[e].inode = table[h].inode
                              /\ f[h] = [name |-> dir[e].name, offset |-> table[h].offset]
    PROVE  HandlesOf(table, dir) = f
<1>1. ASSUME NEW h \in Fd, table[h].used
      PROVE  f[h] = [name |-> dir[CHOOSE e \in Entry : dir[e].used /\ dir[e].inode = table[h].inode].name,
                     offset |-> table[h].offset]
  <2>1. PICK e \in Entry : /\ dir[e].used /\ dir[e].inode = table[h].inode
                           /\ f[h] = [name |-> dir[e].name, offset |-> table[h].offset]
    BY <1>1
  <2>2. (CHOOSE x \in Entry : dir[x].used /\ dir[x].inode = table[h].inode) = e
    BY <2>1, EntryChosen
  <2> QED BY <2>1, <2>2
<1> QED BY <1>1 DEF HandlesOf

\* The refinement mapping in these terms, in a state and in the next.
LEMMA StoredIs ==
    ASSUME \A e \in Entry : root_dir[e].inode \in Inode
    PROVE  Stored = FilesOf(root_dir, Text)
<1>1. \A n : find_dirent(n) = {e \in Entry : root_dir[e].used /\ root_dir[e].name = n}
  BY DEF find_dirent
<1>2. \A n \in Name : find_dirent(n) # {} => Named(n) = root_dir[CHOOSE e \in Entry : root_dir[e].used /\ root_dir[e].name = n].inode
  BY DEF Named, find_dirent
<1>3. \A n \in Name : find_dirent(n) # {} => Named(n) \in Inode
  <2>1. ASSUME NEW n \in Name, find_dirent(n) # {}
        PROVE  (CHOOSE e \in Entry : root_dir[e].used /\ root_dir[e].name = n) \in Entry
    BY <2>1 DEF find_dirent
  <2> QED BY <1>2, <2>1
<1>4. \A n \in Name : find_dirent(n) # {} => Contents(Named(n)) = Text[Named(n)]
  BY <1>3 DEF Text
<1> QED BY <1>1, <1>2, <1>4 DEF Stored, FilesOf

\* The same after a step.
LEMMA StoredIsPrime ==
    ASSUME \A e \in Entry : root_dir'[e].inode \in Inode
    PROVE  Stored' = FilesOf(root_dir', Text')
<1>1. \A n : find_dirent(n)' = {e \in Entry : root_dir'[e].used /\ root_dir'[e].name = n}
  BY DEF find_dirent
<1>2. \A n \in Name : find_dirent(n)' # {} => Named(n)' = root_dir'[CHOOSE e \in Entry : root_dir'[e].used /\ root_dir'[e].name = n].inode
  BY DEF Named, find_dirent
<1>3. \A n \in Name : find_dirent(n)' # {} => Named(n)' \in Inode
  <2>1. ASSUME NEW n \in Name, find_dirent(n)' # {}
        PROVE  (CHOOSE e \in Entry : root_dir'[e].used /\ root_dir'[e].name = n) \in Entry
    BY <2>1 DEF find_dirent
  <2> QED BY <1>2, <2>1
<1>4. \A n \in Name : find_dirent(n)' # {} => Contents(Named(n))' = Text'[Named(n)']
  BY <1>3 DEF Text
<1> QED BY <1>1, <1>2, <1>4 DEF Stored, FilesOf

\* And what it shows of the descriptors.
LEMMA HandlesIs == Handles = HandlesOf(fds, root_dir) /\ Handles' = HandlesOf(fds', root_dir')
  BY DEF Handles, HandlesOf, NameOf

-----------------------------------------------------------------------------
\* fs_create writes no other name than one it was given.
NamesGiven == \A e \in Entry : root_dir[e].used => root_dir[e].name \in Name

StoreInv == FsInv /\ NamesGiven

\* The names in the directory are names a caller passed.
LEMMA NamesStay == ASSUME FsInv, NamesGiven, FsNext PROVE NamesGiven'
<1>1. root_dir \in [Entry -> Dirents]
  BY TypeIs DEF FsInv, Types
<1>2. ASSUME NEW name \in Name, fs_create(name) PROVE NamesGiven'
  BY <1>1, <1>2 DEF fs_create, NamesGiven
<1>3. ASSUME NEW name \in Name, fs_unlink(name) PROVE NamesGiven'
  BY <1>1, <1>3 DEF fs_unlink, NamesGiven, ZeroEntry
<1>4. CASE root_dir' = root_dir
  BY <1>4 DEF NamesGiven
<1> QED BY <1>2, <1>3, <1>4 DEF FsNext, fs_open, fs_close, fs_read, fs_read_block, fs_read_return,
       fs_write, fs_write_block, fs_write_return

\* What FileStore is shown of a state.
LEMMA View ==
    ASSUME StoreInv
    PROVE  /\ WellFormed(root_dir) /\ \A e \in Entry : root_dir[e].inode \in Inode
           /\ Stored = FilesOf(root_dir, Text)
           /\ \A e \in Entry : root_dir[e].used => root_dir[e].inode \in Files
           /\ \A h \in Fd : fds[h].used =>
                 \E e \in Entry : root_dir[e].used /\ root_dir[e].inode = fds[h].inode
           /\ Files \subseteq Inode
<1>1. /\ root_dir \in [Entry -> Dirents] /\ inode_bitmap \subseteq Inode
      /\ DirectoryMatchesInodes /\ OpenFilesExist
  BY TypeIs DEF StoreInv, FsInv, Types, Tables
<1>2. \A e \in Entry : root_dir[e].inode \in Inode
  BY <1>1 DEF Dirents
<1>3. WellFormed(root_dir)
  BY <1>1 DEF StoreInv, NamesGiven, WellFormed, DirectoryMatchesInodes
<1>4. \A e \in Entry : root_dir[e].used => root_dir[e].inode \in Files
  BY <1>1 DEF DirectoryMatchesInodes
<1>5. \A i \in Files : \E e \in Entry : root_dir[e].used /\ root_dir[e].inode = i
  BY <1>1 DEF DirectoryMatchesInodes
<1>6. \A h \in Fd : fds[h].used => fds[h].inode \in Files
  BY <1>1 DEF OpenFilesExist
<1> QED BY <1>1, <1>2, <1>3, <1>4, <1>5, <1>6, StoredIs DEF Files

\* And of the next one.
LEMMA ViewNext ==
    ASSUME StoreInv'
    PROVE  /\ WellFormed(root_dir') /\ \A e \in Entry : root_dir'[e].inode \in Inode
           /\ Stored' = FilesOf(root_dir', Text')
           /\ \A e \in Entry : root_dir'[e].used => root_dir'[e].inode \in Files'
<1>1. Types' /\ DirectoryMatchesInodes'
  BY TypeIs DEF StoreInv, FsInv, Tables
<1>2. \A e \in Entry : root_dir'[e].inode \in Inode
  BY <1>1 DEF Types, Dirents
<1>3. WellFormed(root_dir')
  BY <1>1 DEF StoreInv, NamesGiven, WellFormed, DirectoryMatchesInodes
<1>4. \A e \in Entry : root_dir'[e].used => root_dir'[e].inode \in Files'
  BY <1>1 DEF DirectoryMatchesInodes
<1> QED BY <1>2, <1>3, <1>4, StoredIsPrime

\* A file is the sequence of the bytes its blocks hold below its length.
LEMMA TextIs ==
    ASSUME StoreInv, NEW i \in Files
    PROVE  /\ Length(i) \in Nat /\ Text[i] \in Seq(Byte) /\ Len(Text[i]) = Length(i)
           /\ \A k \in 1 .. Length(i) :
                 /\ (k - 1) \div FS_BLOCK_SIZE \in Slot /\ (k - 1) % FS_BLOCK_SIZE \in Cell
                 /\ inodes[i].blocks[(k - 1) \div FS_BLOCK_SIZE] \in Block \ Metadata
                 /\ Text[i][k] = disk[inodes[i].blocks[(k - 1) \div FS_BLOCK_SIZE]][(k - 1) % FS_BLOCK_SIZE]
<1>1. i \in Inode /\ inodes[i] \in INodes /\ disk \in [Block \ Metadata -> [Cell -> Byte]]
  BY View, TypeIs DEF StoreInv, FsInv, Types
<1>2. FS_BLOCK_SIZE \in Nat \ {0} /\ FS_DIRECT \in Nat /\ MaxBytes \in Nat
  BY FsConstants
<1>3. Length(i) \in Nat /\ Length(i) <= MaxBytes
  <2>1. inodes[i].size \in Nat /\ inodes[i].size <= MaxBytes
    BY <1>1, <1>2 DEF INodes
  <2>2. call.op = "write" => Pos \in Nat /\ Pos <= MaxBytes
    <3>1. call.fd \in Fd
      BY TypeIs DEF StoreInv, FsInv, Types, Calls
    <3> QED BY <3>1, BehindHandle DEF StoreInv, Pos
  <2> QED BY <2>1, <2>2 DEF Length
<1>4. ASSUME NEW k \in 1 .. Length(i)
      PROVE  /\ (k - 1) \div FS_BLOCK_SIZE \in Slot /\ (k - 1) % FS_BLOCK_SIZE \in Cell
             /\ inodes[i].blocks[(k - 1) \div FS_BLOCK_SIZE] \in Block \ Metadata
  <2> DEFINE q == (k - 1) \div FS_BLOCK_SIZE
             r == (k - 1) % FS_BLOCK_SIZE
  <2>1. k - 1 \in Nat /\ k - 1 < Length(i) /\ k - 1 < FS_DIRECT * FS_BLOCK_SIZE
    <3>1. MaxBytes = FS_DIRECT * FS_BLOCK_SIZE
      BY DEF MaxBytes
    <3>2. k \in Nat /\ k >= 1 /\ k <= Length(i)
      BY <1>3
    <3> QED BY <1>2, <1>3, <3>1, <3>2
  <2>2. q \in Nat /\ r \in 0 .. (FS_BLOCK_SIZE - 1) /\ k - 1 = q * FS_BLOCK_SIZE + r
    BY <1>2, <2>1, Division
  <2> HIDE DEF q, r
  <2>3. q * FS_BLOCK_SIZE \in Nat /\ FS_DIRECT * FS_BLOCK_SIZE \in Nat
        /\ (FS_DIRECT <= q => FS_DIRECT * FS_BLOCK_SIZE <= q * FS_BLOCK_SIZE)
    BY <1>2, <2>2, BlockOrder
  <2>4. q \in Slot
    BY <1>2, <2>1, <2>2, <2>3 DEF Slot
  <2>5. q * FS_BLOCK_SIZE < Length(i)
    BY <1>3, <2>1, <2>2, <2>3
  <2>6. inodes[i].blocks[q] # 0 /\ inodes[i].blocks[q] \in Block
    BY <1>1, <2>4, <2>5 DEF StoreInv, FsInv, SizeIsBacked, INodes
  <2>7. inodes[i].blocks[q] \notin Metadata
    BY <2>4, <2>6 DEF StoreInv, FsInv, Tables, BlocksNotShared
  <2> QED BY <2>2, <2>4, <2>6, <2>7 DEF q, r, Cell
<1> DEFINE byte(k) == disk[inodes[i].blocks[(k - 1) \div FS_BLOCK_SIZE]][(k - 1) % FS_BLOCK_SIZE]
<1>5. Text[i] = [k \in 1 .. Length(i) |-> byte(k)]
  BY <1>1 DEF Text, Contents
<1>6. \A k \in 1 .. Length(i) : byte(k) \in Byte
  BY <1>1, <1>4
<1>7. Text[i] \in Seq(Byte) /\ Len(Text[i]) = Length(i)
  <2> HIDE DEF byte, Text
  <2> QED BY <1>3, <1>5, <1>6
<1> HIDE DEF Text
<1> QED BY <1>3, <1>4, <1>5, <1>7

\* Where blocks, bytes and length of a file stay, its contents do.
LEMMA TextStays ==
    ASSUME NEW i \in Inode, disk' = disk, inodes'[i].blocks = inodes[i].blocks,
           Length(i)' = Length(i)
    PROVE  Text'[i] = Text[i]
  BY DEF Text, Contents

\* Where no file's contents change, neither does what is stored.
LEMMA StoredStays ==
    ASSUME StoreInv, StoreInv', root_dir' = root_dir, \A i \in Files : Text'[i] = Text[i]
    PROVE  Stored' = Stored
<1>1. FilesOf(root_dir, Text) = [n \in DOMAIN FilesOf(root_dir, Text) |-> FilesOf(root_dir, Text)[n]]
  BY DEF FilesOf
<1>2. WellFormed(root_dir) /\ \A e \in Entry : root_dir[e].used => root_dir[e].inode \in Files
  BY View
<1>3. DOMAIN FilesOf(root_dir, Text) = {m \in Name : \E e \in Entry : root_dir[e].used /\ root_dir[e].name = m}
  BY DEF FilesOf
<1>4. ASSUME NEW e \in Entry, root_dir[e].used
      PROVE  FilesOf(root_dir, Text)[root_dir[e].name] = Text'[root_dir[e].inode]
  BY <1>2, <1>4, FileAt
<1>5. FilesOf(root_dir, Text') = FilesOf(root_dir, Text)
  BY <1>1, <1>2, <1>3, <1>4, FilesUnique
<1> QED BY <1>5, View, ViewNext

\* Changes to entries behind which nothing is open do not show in the handles.
LEMMA HandlesStay ==
    ASSUME NEW table, NEW dir, NEW dir2, WellFormed(dir), WellFormed(dir2),
           \A h \in Fd : table[h].used =>
              \E e \in Entry : /\ dir[e].used /\ dir[e].inode = table[h].inode
                              /\ dir2[e] = dir[e]
    PROVE  HandlesOf(table, dir2) = HandlesOf(table, dir)
<1>1. HandlesOf(table, dir) = [h \in DOMAIN HandlesOf(table, dir) |-> HandlesOf(table, dir)[h]]
  BY DEF HandlesOf
<1>2. DOMAIN HandlesOf(table, dir) = {g \in Fd : table[g].used}
  BY DEF HandlesOf
<1>3. ASSUME NEW h \in Fd, table[h].used
      PROVE  \E e \in Entry :
                /\ dir2[e].used /\ dir2[e].inode = table[h].inode
                /\ HandlesOf(table, dir)[h] = [name |-> dir2[e].name, offset |-> table[h].offset]
  <2>1. PICK e \in Entry : dir[e].used /\ dir[e].inode = table[h].inode /\ dir2[e] = dir[e]
    BY <1>3
  <2>2. HandlesOf(table, dir)[h] = [name |-> dir[e].name, offset |-> table[h].offset]
    BY <1>3, <2>1, HandleAt
  <2> QED BY <2>1, <2>2
<1> QED BY <1>1, <1>2, <1>3, HandlesUnique

-----------------------------------------------------------------------------
\* Between calls nothing is pending.
LEMMA IdleIsNoJob ==
    /\ call.op = "none" => Pending = Store!NoJob
    /\ call'.op = "none" => Pending' = Store!NoJob
  BY DEF Pending, Store!NoJob

\* fs_create adds an empty file.
LEMMA CreateStep ==
    ASSUME StoreInv, StoreInv', NEW name \in Name, fs_create(name)
    PROVE  Store!Manage /\ Store!Create(name)
<1> DEFINE new == [ZeroInode EXCEPT !.used = TRUE, !.type = "file"]
<1>1. PICK ino \in Inode, e \in Entry :
        /\ ino \in FreeInodes /\ ~root_dir[e].used
        /\ inode_bitmap' = inode_bitmap \cup {ino}
        /\ inodes' = [inodes EXCEPT ![ino] = new]
        /\ root_dir' = [root_dir EXCEPT ![e] = [used |-> TRUE, inode |-> ino, name |-> name]]
  BY DEF fs_create, First
<1>2. /\ UNCHANGED <<fds, disk, call, out>> /\ call.op = "none"
      /\ \A x \in Entry : root_dir[x].used => root_dir[x].name # name
  BY DEF fs_create, Idle, find_dirent
<1>3. new.size = 0
  BY DEF ZeroInode
<1> HIDE DEF new
<1>4. inodes \in [Inode -> INodes] /\ root_dir \in [Entry -> Dirents]
  BY TypeIs DEF Types, StoreInv, FsInv
<1>5. ino \notin Files
  BY <1>1 DEF FreeInodes, Files
<1>6. /\ inodes'[ino] = new /\ \A i \in Inode \ {ino} : inodes'[i] = inodes[i]
      /\ root_dir'[e] = [used |-> TRUE, inode |-> ino, name |-> name]
      /\ \A x \in Entry \ {e} : root_dir'[x] = root_dir[x]
  BY <1>1, <1>4
<1>7. \A i \in Files : Text'[i] = Text[i]
  <2>1. ASSUME NEW i \in Files PROVE Text'[i] = Text[i]
    <3>1. i \in Inode /\ i # ino
      BY <1>5, View
    <3>2. Length(i)' = Length(i)
      BY <1>2, <1>6, <3>1, IdleLength
    <3> QED BY <1>2, <1>6, <3>1, <3>2, TextStays
  <2> QED BY <2>1
<1>8. Text'[ino] = << >>
  <2>1. Length(ino)' = 0
    BY <1>2, <1>3, <1>6, IdleLength
  <2> QED BY <2>1 DEF Text, Contents
<1>9. WellFormed(root_dir) /\ WellFormed(root_dir')
  BY View, ViewNext
<1>10. name \notin DOMAIN Stored
  BY <1>2, View DEF FilesOf
<1>11. Stored' = Store!With(Stored, name, << >>)
  <2> DEFINE f == Store!With(Stored, name, << >>)
  <2>1. f = [n \in DOMAIN f |-> f[n]] /\ DOMAIN f = DOMAIN Stored \cup {name}
    BY DEF Store!With
  <2>2. DOMAIN f = {m \in Name : \E x \in Entry : root_dir'[x].used /\ root_dir'[x].name = m}
    <3>1. DOMAIN Stored = {m \in Name : \E x \in Entry : root_dir[x].used /\ root_dir[x].name = m}
      BY View DEF FilesOf
    <3>2. ASSUME NEW m \in Name
          PROVE  (\E x \in Entry : root_dir'[x].used /\ root_dir'[x].name = m)
                    <=> m = name \/ \E x \in Entry : root_dir[x].used /\ root_dir[x].name = m
      BY <1>1, <1>6
    <3> HIDE DEF f
    <3> QED BY <2>1, <3>1, <3>2
  <2>3. ASSUME NEW x \in Entry, root_dir'[x].used
        PROVE  f[root_dir'[x].name] = Text'[root_dir'[x].inode]
    <3>1. CASE x = e
      BY <1>6, <1>8, <3>1 DEF Store!With
    <3>2. CASE x # e
      <4>1. root_dir'[x] = root_dir[x] /\ root_dir[x].used /\ root_dir[x].name # name
        BY <1>2, <1>6, <2>3, <3>2
      <4>2. /\ root_dir[x].name \in DOMAIN Stored
            /\ Stored[root_dir[x].name] = Text[root_dir[x].inode]
        BY <1>9, <4>1, View, FileAt
      <4>3. f[root_dir[x].name] = Stored[root_dir[x].name]
        BY <4>1, <4>2 DEF Store!With
      <4> QED BY <1>7, <4>1, <4>2, <4>3, View
    <3> QED BY <3>1, <3>2
  <2> HIDE DEF f
  <2>4. FilesOf(root_dir', Text') = f
    BY <1>9, <2>1, <2>2, <2>3, FilesUnique
  <2> QED BY <2>4, ViewNext DEF f
<1>12. Handles' = Handles
  <2>1. ASSUME NEW h \in Fd, fds[h].used
        PROVE  \E x \in Entry : /\ root_dir[x].used /\ root_dir[x].inode = fds[h].inode
                               /\ root_dir'[x] = root_dir[x]
    BY <1>1, <1>6, <2>1, View
  <2> QED BY <1>2, <1>9, <2>1, HandlesStay, HandlesIs
<1>13. Pending = Store!NoJob /\ Pending' = Pending /\ out' = out
  BY <1>2, IdleIsNoJob
<1> QED BY <1>10, <1>11, <1>12, <1>13 DEF Store!Manage, Store!Create

\* fs_unlink removes one that no descriptor has open.
LEMMA UnlinkStep ==
    ASSUME StoreInv, StoreInv', NEW name \in Name, fs_unlink(name)
    PROVE  Store!Manage /\ Store!Remove(name)
<1>1. PICK e \in Entry :
        /\ root_dir[e].used /\ root_dir[e].name = name
        /\ \A h \in Fd : ~(fds[h].used /\ fds[h].inode = root_dir[e].inode)
        /\ inodes' = [inodes EXCEPT ![root_dir[e].inode] = ZeroInode]
        /\ root_dir' = [root_dir EXCEPT ![e] = ZeroEntry]
  BY DEF fs_unlink, First, find_dirent
<1>2. UNCHANGED <<fds, disk, call, out>> /\ call.op = "none"
  BY DEF fs_unlink, Idle
<1>3. inodes \in [Inode -> INodes] /\ root_dir \in [Entry -> Dirents]
  BY TypeIs DEF Types, StoreInv, FsInv
<1>4. /\ \A i \in Inode \ {root_dir[e].inode} : inodes'[i] = inodes[i]
      /\ ~root_dir'[e].used
      /\ \A x \in Entry \ {e} : root_dir'[x] = root_dir[x]
  BY <1>1, <1>3 DEF ZeroEntry
<1>5. WellFormed(root_dir) /\ WellFormed(root_dir')
  BY View, ViewNext
<1>6. \A x \in Entry \ {e} : root_dir[x].used =>
         root_dir[x].name # name /\ root_dir[x].inode # root_dir[e].inode
  BY <1>1, <1>5 DEF WellFormed
<1>7. \A i \in Files \ {root_dir[e].inode} : Text'[i] = Text[i]
  <2>1. ASSUME NEW i \in Files \ {root_dir[e].inode} PROVE Text'[i] = Text[i]
    <3>1. i \in Inode
      BY View
    <3>2. Length(i)' = Length(i)
      BY <1>2, <1>4, <3>1, IdleLength
    <3> QED BY <1>2, <1>4, <3>1, <3>2, TextStays
  <2> QED BY <2>1
<1>8. name \in DOMAIN Stored
  BY <1>1, View, FileAt
<1>9. Stored' = Store!Without(Stored, name)
  <2> DEFINE f == Store!Without(Stored, name)
  <2>1. f = [n \in DOMAIN f |-> f[n]] /\ DOMAIN f = DOMAIN Stored \ {name}
    BY DEF Store!Without
  <2>2. DOMAIN f = {m \in Name : \E x \in Entry : root_dir'[x].used /\ root_dir'[x].name = m}
    <3>1. DOMAIN Stored = {m \in Name : \E x \in Entry : root_dir[x].used /\ root_dir[x].name = m}
      BY View DEF FilesOf
    <3>2. ASSUME NEW m \in Name
          PROVE  (\E x \in Entry : root_dir'[x].used /\ root_dir'[x].name = m)
                    <=> m # name /\ \E x \in Entry : root_dir[x].used /\ root_dir[x].name = m
      BY <1>1, <1>4, <1>6
    <3> HIDE DEF f
    <3> QED BY <2>1, <3>1, <3>2
  <2>3. ASSUME NEW x \in Entry, root_dir'[x].used
        PROVE  f[root_dir'[x].name] = Text'[root_dir'[x].inode]
    <3>1. x # e /\ root_dir'[x] = root_dir[x] /\ root_dir[x].used
      BY <1>4, <2>3
    <3>2. root_dir[x].name # name /\ root_dir[x].inode # root_dir[e].inode
      BY <1>6, <3>1
    <3>3. /\ root_dir[x].name \in DOMAIN Stored
          /\ Stored[root_dir[x].name] = Text[root_dir[x].inode]
      BY <1>5, <3>1, View, FileAt
    <3>4. f[root_dir[x].name] = Stored[root_dir[x].name]
      BY <3>2, <3>3 DEF Store!Without
    <3> QED BY <1>7, <3>1, <3>2, <3>3, <3>4, View
  <2> HIDE DEF f
  <2>4. FilesOf(root_dir', Text') = f
    BY <1>5, <2>1, <2>2, <2>3, FilesUnique
  <2> QED BY <2>4, ViewNext DEF f
<1>10. Handles' = Handles
  <2>1. ASSUME NEW h \in Fd, fds[h].used
        PROVE  \E x \in Entry : /\ root_dir[x].used /\ root_dir[x].inode = fds[h].inode
                               /\ root_dir'[x] = root_dir[x]
    BY <1>1, <1>4, <2>1, View
  <2> QED BY <1>2, <1>5, <2>1, HandlesStay, HandlesIs
<1>11. \A h \in DOMAIN Handles : Handles[h].name # name
  <2>1. ASSUME NEW h \in Fd, fds[h].used PROVE Handles[h].name # name
    <3>1. PICK x \in Entry : root_dir[x].used /\ root_dir[x].inode = fds[h].inode
      BY <2>1, View
    <3>2. Handles[h] = [name |-> root_dir[x].name, offset |-> fds[h].offset]
      BY <1>5, <2>1, <3>1, HandleAt, HandlesIs
    <3>3. x # e
      BY <1>1, <2>1, <3>1
    <3> QED BY <1>6, <3>1, <3>2, <3>3
  <2>2. DOMAIN Handles = {h \in Fd : fds[h].used}
    BY DEF Handles
  <2> QED BY <2>1, <2>2
<1>12. Pending = Store!NoJob /\ Pending' = Pending /\ out' = out
  BY <1>2, IdleIsNoJob
<1> QED BY <1>8, <1>9, <1>10, <1>11, <1>12 DEF Store!Manage, Store!Remove

\* Steps that leave directory, inodes and blocks as they are change no file.
LEMMA FilesUntouched ==
    ASSUME StoreInv, StoreInv', UNCHANGED <<inodes, root_dir, disk>>,
           \A i \in Files : Length(i)' = Length(i)
    PROVE  Stored' = Stored
<1>1. ASSUME NEW i \in Files PROVE Text'[i] = Text[i]
  <2>1. i \in Inode
    BY View
  <2> QED BY <2>1, TextStays
<1> QED BY <1>1, StoredStays

\* fs_open begins a handle at position 0.
LEMMA OpenStep ==
    ASSUME StoreInv, StoreInv', NEW name \in Name, fs_open(name)
    PROVE  Store!Manage /\ \E h \in Fd : First(h, FreeFds) /\ Store!Open(name, h)
<1>1. PICK e \in Entry, h \in Fd :
        /\ root_dir[e].used /\ root_dir[e].name = name /\ ~fds[h].used /\ First(h, FreeFds)
        /\ fds' = [fds EXCEPT ![h] = [used |-> TRUE, inode |-> root_dir[e].inode, offset |-> 0]]
  BY DEF fs_open, First, find_dirent, FreeFds
<1>2. UNCHANGED <<inodes, root_dir, disk, call, out>> /\ call.op = "none"
  BY DEF fs_open, Idle
<1>3. fds \in [Fd -> FdRecs]
  BY TypeIs DEF Types, StoreInv, FsInv
<1>4. /\ fds'[h] = [used |-> TRUE, inode |-> root_dir[e].inode, offset |-> 0]
      /\ \A g \in Fd \ {h} : fds'[g] = fds[g]
  BY <1>1, <1>3
<1>5. Stored' = Stored
  BY <1>2, FilesUntouched, IdleLength
<1>6. WellFormed(root_dir)
  BY View
<1>7. name \in DOMAIN Stored
  BY <1>1, View, FileAt
<1>8. h \notin DOMAIN Handles /\ DOMAIN Handles = {g \in Fd : fds[g].used}
  BY <1>1 DEF Handles
<1>9. Handles' = Store!With(Handles, h, [name |-> name, offset |-> 0])
  <2> DEFINE f == Store!With(Handles, h, [name |-> name, offset |-> 0])
  <2>1. f = [g \in DOMAIN f |-> f[g]] /\ DOMAIN f = DOMAIN Handles \cup {h}
    BY DEF Store!With
  <2>2. DOMAIN f = {g \in Fd : fds'[g].used}
    <3>1. \A g \in Fd : fds'[g].used <=> g = h \/ fds[g].used
      BY <1>4
    <3> HIDE DEF f
    <3> QED BY <1>8, <2>1, <3>1
  <2>3. ASSUME NEW g \in Fd, fds'[g].used
        PROVE  \E x \in Entry : /\ root_dir[x].used /\ root_dir[x].inode = fds'[g].inode
                               /\ f[g] = [name |-> root_dir[x].name, offset |-> fds'[g].offset]
    <3>1. CASE g = h
      BY <1>1, <1>4, <3>1 DEF Store!With
    <3>2. CASE g # h
      <4>1. fds'[g] = fds[g] /\ fds[g].used
        BY <1>4, <2>3, <3>2
      <4>2. PICK x \in Entry : root_dir[x].used /\ root_dir[x].inode = fds[g].inode
        BY <4>1, View
      <4>3. Handles[g] = [name |-> root_dir[x].name, offset |-> fds[g].offset]
        BY <1>6, <4>1, <4>2, HandleAt, HandlesIs
      <4>4. f[g] = Handles[g]
        BY <1>8, <3>2, <4>1 DEF Store!With
      <4> QED BY <4>1, <4>2, <4>3, <4>4
    <3> QED BY <3>1, <3>2
  <2> HIDE DEF f
  <2>4. HandlesOf(fds', root_dir) = f
    BY <1>6, <2>1, <2>2, <2>3, HandlesUnique
  <2> QED BY <1>2, <2>4, HandlesIs DEF f
<1>10. Pending = Store!NoJob /\ Pending' = Pending /\ out' = out
  BY <1>2, IdleIsNoJob
<1>11. Store!Open(name, h)
  BY <1>5, <1>7, <1>8, <1>9 DEF Store!Open
<1> QED BY <1>1, <1>10, <1>11 DEF Store!Manage

\* fs_close ends a handle.
LEMMA CloseStep ==
    ASSUME StoreInv, StoreInv', NEW h \in Fd, fs_close(h)
    PROVE  Store!Manage /\ Store!Close(h)
<1>1. /\ fds[h].used /\ fds' = [fds EXCEPT ![h] = ZeroFd]
      /\ UNCHANGED <<inodes, root_dir, disk, call, out>> /\ call.op = "none"
  BY DEF fs_close, Idle
<1>2. fds \in [Fd -> FdRecs]
  BY TypeIs DEF Types, StoreInv, FsInv
<1>3. ~fds'[h].used /\ \A g \in Fd \ {h} : fds'[g] = fds[g]
  BY <1>1, <1>2 DEF ZeroFd
<1>4. Stored' = Stored
  BY <1>1, FilesUntouched, IdleLength
<1>5. WellFormed(root_dir)
  BY View
<1>6. h \in DOMAIN Handles /\ DOMAIN Handles = {g \in Fd : fds[g].used}
  BY <1>1 DEF Handles
<1>7. Handles' = Store!Without(Handles, h)
  <2> DEFINE f == Store!Without(Handles, h)
  <2>1. f = [g \in DOMAIN f |-> f[g]] /\ DOMAIN f = DOMAIN Handles \ {h}
    BY DEF Store!Without
  <2>2. DOMAIN f = {g \in Fd : fds'[g].used}
    <3>1. \A g \in Fd : fds'[g].used <=> g # h /\ fds[g].used
      BY <1>3
    <3> HIDE DEF f
    <3> QED BY <1>6, <2>1, <3>1
  <2>3. ASSUME NEW g \in Fd, fds'[g].used
        PROVE  \E x \in Entry : /\ root_dir[x].used /\ root_dir[x].inode = fds'[g].inode
                               /\ f[g] = [name |-> root_dir[x].name, offset |-> fds'[g].offset]
    <3>1. g # h /\ fds'[g] = fds[g] /\ fds[g].used
      BY <1>3, <2>3
    <3>2. PICK x \in Entry : root_dir[x].used /\ root_dir[x].inode = fds[g].inode
      BY <3>1, View
    <3>3. Handles[g] = [name |-> root_dir[x].name, offset |-> fds[g].offset]
      BY <1>5, <3>1, <3>2, HandleAt, HandlesIs
    <3>4. f[g] = Handles[g]
      BY <1>6, <3>1 DEF Store!Without
    <3> QED BY <3>1, <3>2, <3>3, <3>4
  <2> HIDE DEF f
  <2>4. HandlesOf(fds', root_dir) = f
    BY <1>5, <2>1, <2>2, <2>3, HandlesUnique
  <2> QED BY <1>1, <2>4, HandlesIs DEF f
<1>8. Pending = Store!NoJob /\ Pending' = Pending /\ out' = out
  BY <1>1, IdleIsNoJob
<1>9. Store!Close(h)
  BY <1>4, <1>6, <1>7 DEF Store!Close
<1> QED BY <1>8, <1>9 DEF Store!Manage

-----------------------------------------------------------------------------
\* An open descriptor shows its position in a file that is stored.
LEMMA Opened ==
    ASSUME StoreInv, NEW h \in Fd, fds[h].used
    PROVE  /\ h \in DOMAIN Handles /\ fds[h].inode \in Files /\ fds[h].inode \in Inode
           /\ fds[h].offset \in Nat
           /\ Handles[h].offset = fds[h].offset
           /\ Handles[h].name \in DOMAIN Stored
           /\ Stored[Handles[h].name] = Text[fds[h].inode]
<1>1. PICK e \in Entry : root_dir[e].used /\ root_dir[e].inode = fds[h].inode
  BY View
<1>2. WellFormed(root_dir) /\ Stored = FilesOf(root_dir, Text)
  BY View
<1>3. h \in DOMAIN Handles /\ Handles[h] = [name |-> root_dir[e].name, offset |-> fds[h].offset]
  BY <1>1, <1>2, HandleAt, HandlesIs
<1>4. Handles[h].name = root_dir[e].name /\ Handles[h].offset = fds[h].offset
  BY <1>3
<1>5. root_dir[e].name \in DOMAIN Stored /\ Stored[root_dir[e].name] = Text[root_dir[e].inode]
  BY <1>1, <1>2, FileAt
<1>6. fds[h].inode \in Files /\ fds[h].inode \in Inode /\ fds[h].offset \in Nat
  BY BehindHandle DEF StoreInv
<1> QED BY <1>1, <1>3, <1>4, <1>5, <1>6

\* fs_read will fetch what there is, up to what was asked for.
LEMMA ReadStartStep ==
    ASSUME StoreInv, StoreInv', NEW h \in Fd, NEW n \in Counts, fs_read(h, n)
    PROVE  Store!StartRead(h, n)
<1> DEFINE there == inodes[fds[h].inode].size - fds[h].offset
<1>1. /\ fds[h].used /\ call.op = "none"
      /\ call' = [op |-> "read", fd |-> h, buf |-> << >>, count |-> Smaller(n, there), done |-> 0]
      /\ UNCHANGED <<inodes, root_dir, fds, disk, out>>
  BY DEF fs_read, Idle, IsFile, NoCall
<1>2. n \in Nat /\ there \in Int
  BY FsAssumption, BehindHandle DEF StoreInv
<1>3. Smaller(n, there) \in Int /\ Smaller(n, there) = IF n < there THEN n ELSE there
  BY <1>2 DEF Smaller
<1>4. there = Len(Stored[Handles[h].name]) - Handles[h].offset
  <2>1. fds[h].inode \in Files /\ Stored[Handles[h].name] = Text[fds[h].inode]
        /\ Handles[h].offset = fds[h].offset
    BY <1>1, Opened
  <2>2. Len(Text[fds[h].inode]) = Length(fds[h].inode)
    BY <2>1, TextIs
  <2>3. Length(fds[h].inode) = inodes[fds[h].inode].size
    BY <1>1, IdleLength
  <2> QED BY <2>1, <2>2, <2>3
<1> HIDE DEF there
<1>5. call'.op = "read" /\ call'.fd = h /\ call'.count = Smaller(n, there) /\ call'.done = 0
  BY <1>1
<1>6. Pending' = [op |-> "read", fd |-> h, left |-> Smaller(n, there)]
  BY <1>3, <1>5 DEF Pending
<1>7. Stored' = Stored
  BY <1>1, <1>5, FilesUntouched, IdleLength
<1>8. Handles' = Handles
  BY <1>1, HandlesIs
<1>9. h \in DOMAIN Handles
  BY <1>1, Opened
<1> QED BY <1>1, <1>3, <1>4, <1>6, <1>7, <1>8, <1>9, IdleIsNoJob DEF Store!StartRead

\* fs_write has all of the caller's data to store.
LEMMA WriteStartStep ==
    ASSUME StoreInv, StoreInv', NEW h \in Fd, NEW buf \in Buffers, fs_write(h, buf)
    PROVE  Store!StartWrite(h, buf)
<1>1. /\ fds[h].used /\ call.op = "none"
      /\ UNCHANGED <<inodes, root_dir, fds, disk, out>>
      /\ call'.op = "write" /\ call'.fd = h /\ call'.buf = buf /\ call'.done = 0
  BY DEF fs_write, Idle, IsFile
<1>2. SubSeq(buf, 1, Len(buf)) = buf
  BY FsAssumption
<1>3. Pending' = [op |-> "write", fd |-> h, rest |-> buf]
  BY <1>1, <1>2 DEF Pending
<1>4. Stored' = Stored
  <2>1. ASSUME NEW i \in Files PROVE Length(i)' = Length(i)
    <3>1. Length(i) = inodes[i].size
      BY <1>1, IdleLength
    <3>2. Pos' = fds[h].offset /\ Ino' = fds[h].inode
      BY <1>1 DEF Pos, Ino
    <3>3. fds[h].inode = i => fds[h].offset <= inodes[i].size
      BY <1>1, <3>1, SizesAre DEF StoreInv
    <3>4. fds[h].offset \in Nat /\ (fds[h].inode = i => inodes[i].size \in Nat)
      BY BehindHandle DEF StoreInv
    <3> QED BY <1>1, <3>1, <3>2, <3>3, <3>4 DEF Length
  <2> QED BY <1>1, <2>1, FilesUntouched
<1>5. Handles' = Handles /\ h \in DOMAIN Handles
  BY <1>1, HandlesIs, Opened
<1> QED BY <1>1, <1>3, <1>4, <1>5, IdleIsNoJob DEF Store!StartWrite

\* The loop of fs_read ends when all of it has been fetched: no block of a file
\* is missing.
LEMMA ReadReturnStep ==
    ASSUME StoreInv, StoreInv', fs_read_return
    PROVE  Store!EndRead
<1>1. /\ call.op = "read" /\ ~CanRead /\ call'.op = "none" /\ out' = << >>
      /\ UNCHANGED <<inodes, root_dir, fds, disk>>
  BY DEF fs_read_return, NoCall
<1>2. /\ call.fd \in Fd /\ call.done \in Nat /\ call.count \in Nat
      /\ fds[call.fd].used /\ call.done <= call.count
      /\ Pos + (call.count - call.done) <= inodes[Ino].size
  BY <1>1, TypeIs DEF StoreInv, FsInv, Types, Calls, CallFits
<1>3. call.done = call.count
  <2> SUFFICES ASSUME call.done < call.count PROVE CanRead
    BY <1>1, <1>2
  <2>1. /\ Pos \in Nat /\ Index \in Nat /\ Within \in Cell
        /\ Pos = Index * FS_BLOCK_SIZE + Within /\ Index * FS_BLOCK_SIZE \in Nat
    BY <1>1, PieceIs DEF StoreInv
  <2>2. /\ Ino \in Files /\ inodes[Ino].size \in Nat /\ inodes[Ino].size <= MaxBytes
    BY <1>2, BehindHandle DEF StoreInv, Ino
  <2>3. Index * FS_BLOCK_SIZE < inodes[Ino].size
    BY <1>2, <2>1, <2>2, FsConstants
  <2>4. Index < FS_DIRECT
    <3>1. FS_DIRECT \in Nat /\ FS_BLOCK_SIZE \in Nat \ {0} /\ MaxBytes = FS_DIRECT * FS_BLOCK_SIZE
      BY FsConstants DEF MaxBytes
    <3>2. FS_DIRECT <= Index => FS_DIRECT * FS_BLOCK_SIZE <= Index * FS_BLOCK_SIZE
      BY <2>1, <3>1, BlockOrder
    <3>3. FS_DIRECT * FS_BLOCK_SIZE \in Nat
      BY <3>1, BlockOrder
    <3> QED BY <2>1, <2>2, <2>3, <3>1, <3>2, <3>3
  <2>5. Current # 0
    <3>1. Index \in Slot
      BY <2>1, <2>4, FsConstants DEF Slot
    <3>2. Length(Ino) = inodes[Ino].size
      BY <1>1, IdleLength
    <3> QED BY <2>2, <2>3, <3>1, <3>2 DEF StoreInv, FsInv, SizeIsBacked, Current
  <2> QED BY <2>4, <2>5 DEF CanRead
<1>4. Pending = [op |-> "read", fd |-> call.fd, left |-> 0]
  BY <1>1, <1>2, <1>3 DEF Pending
<1>5. Stored' = Stored
  BY <1>1, FilesUntouched, IdleLength
<1> QED BY <1>1, <1>4, <1>5, HandlesIs, IdleIsNoJob DEF Store!EndRead

\* fs_write stores the length the file already showed.
LEMMA WriteReturnStep ==
    ASSUME StoreInv, StoreInv', fs_write_return
    PROVE  Store!EndWrite
<1> DEFINE size == IF Pos > inodes[Ino].size THEN Pos ELSE inodes[Ino].size
<1>1. /\ call.op = "write" /\ call'.op = "none"
      /\ inodes' = [inodes EXCEPT ![Ino] = [inodes[Ino] EXCEPT !.size = size]]
      /\ UNCHANGED <<root_dir, fds, disk, out>>
  BY DEF fs_write_return, NoCall
<1>2. call.fd \in Fd /\ inodes \in [Inode -> INodes]
  BY <1>1, TypeIs DEF StoreInv, FsInv, Types, Calls
<1>3. Ino \in Inode /\ inodes[Ino] \in INodes
  BY <1>2, BehindHandle DEF StoreInv, Ino
<1>4. size = Length(Ino)
  BY <1>1 DEF Length
<1> HIDE DEF size
<1>5. /\ inodes'[Ino] = [inodes[Ino] EXCEPT !.size = size]
      /\ \A i \in Inode \ {Ino} : inodes'[i] = inodes[i]
  BY <1>1, <1>2, <1>3
<1>6. inodes'[Ino].size = size /\ inodes'[Ino].blocks = inodes[Ino].blocks
  BY <1>3, <1>5 DEF INodes
<1>7. ASSUME NEW i \in Files PROVE Text'[i] = Text[i]
  <2>1. i \in Inode /\ Length(i)' = inodes'[i].size
    BY <1>1, View, IdleLength
  <2>2. Length(i)' = Length(i) /\ inodes'[i].blocks = inodes[i].blocks
    <3>1. CASE i = Ino
      BY <1>4, <1>6, <2>1, <3>1
    <3>2. CASE i # Ino
      BY <1>1, <1>5, <2>1, <3>2 DEF Length
    <3> QED BY <3>1, <3>2
  <2> QED BY <1>1, <2>1, <2>2, TextStays
<1>8. Stored' = Stored
  BY <1>1, <1>7, StoredStays
<1>9. Pending.op = "write"
  BY <1>1 DEF Pending
<1> QED BY <1>1, <1>8, <1>9, HandlesIs, IdleIsNoJob DEF Store!EndWrite

-----------------------------------------------------------------------------
\* Block and offset of a position are what Division finds.
LEMMA QuotientUnique ==
    ASSUME NEW n \in Nat \ {0}, NEW q \in Nat, NEW r \in 0 .. (n - 1),
           NEW x \in Nat, x = q * n + r
    PROVE  x \div n = q /\ x % n = r
<1>1. q * n \in Nat
  BY BlockOrder
<1> DEFINE d == x \div n
           m == x % n
<1>2. d \in Nat /\ m \in 0 .. (n - 1) /\ x = d * n + m
  BY Division
<1> HIDE DEF d, m
<1>3. d * n \in Nat
  BY <1>2, BlockOrder
<1>4. ~(d < q)
  <2>1. d < q => d * n + n <= q * n
    BY <1>2, BlockOrder
  <2> QED BY <1>1, <1>2, <1>3, <2>1
<1>5. ~(q < d)
  <2>1. q < d => q * n + n <= d * n
    BY <1>2, BlockOrder
  <2> QED BY <1>1, <1>2, <1>3, <2>1
<1>6. d = q
  BY <1>2, <1>4, <1>5
<1>7. m = r
  BY <1>1, <1>2, <1>6
<1> QED BY <1>6, <1>7 DEF d, m

\* The n elements that follow position p.
LEMMA SubSeqIs ==
    ASSUME NEW S, NEW t \in Seq(S), NEW p \in Nat, NEW n \in Nat, p + n <= Len(t)
    PROVE  SubSeq(t, p + 1, p + n) = [k \in 1 .. n |-> t[p + k]]
<1> DEFINE u == SubSeq(t, p + 1, p + n)
           v == [k \in 1 .. n |-> t[p + k]]
<1>1. \A i \in (p + 1) .. (p + n) : t[i] \in S
  BY ElementOfSeq, LenProperties
<1>2. /\ u \in Seq(S) /\ Len(u) = IF p + 1 <= p + n THEN (p + n) - (p + 1) + 1 ELSE 0
      /\ \A i \in 1 .. ((p + n) - (p + 1) + 1) : u[i] = t[(p + 1) + i - 1]
  BY <1>1, SubSeqProperties
<1>3. v \in Seq(S) /\ Len(v) = n
  <2>1. \A k \in 1 .. n : t[p + k] \in S
    BY <1>1
  <2> QED BY <2>1
<1> HIDE DEF u
<1>4. Len(u) = n /\ \A i \in 1 .. n : u[i] = t[p + i]
  BY <1>2
<1>5. u = v
  BY <1>2, <1>3, <1>4, SeqEqual
<1> QED BY <1>5 DEF u

\* The position of the descriptor in use moves on by a piece.
LEMMA HandlesAdvance ==
    ASSUME StoreInv, call.op # "none", call.done < call.count, Pos + Piece <= MaxBytes,
           fds' = Advanced, call' = Progress, root_dir' = root_dir
    PROVE  Handles' = Store!Advance(call.fd, Piece)
<1>1. /\ \A h \in Fd : fds'[h].used = fds[h].used /\ fds'[h].inode = fds[h].inode
      /\ \A h \in Fd \ {call.fd} : fds'[h] = fds[h]
      /\ Pos' = Pos + Piece /\ call'.fd = call.fd
  BY AdvancedIs DEF StoreInv
<1>2. call.fd \in Fd /\ fds[call.fd].used
  BY PieceIs DEF StoreInv, FsInv, CallFits
<1>3. fds'[call.fd].offset = fds[call.fd].offset + Piece
  BY <1>1 DEF Pos
<1>4. WellFormed(root_dir)
  BY View
<1> DEFINE f == Store!Advance(call.fd, Piece)
<1>5. /\ DOMAIN Handles = {g \in Fd : fds[g].used} /\ DOMAIN f = DOMAIN Handles
      /\ f = [h \in DOMAIN f |-> f[h]]
  BY DEF Handles, Store!Advance
<1>6. ASSUME NEW h \in Fd, fds'[h].used
      PROVE  \E x \in Entry : /\ root_dir[x].used /\ root_dir[x].inode = fds'[h].inode
                              /\ f[h] = [name |-> root_dir[x].name, offset |-> fds'[h].offset]
  <2>1. fds[h].used /\ fds'[h].inode = fds[h].inode
    BY <1>1, <1>6
  <2>2. PICK x \in Entry : root_dir[x].used /\ root_dir[x].inode = fds[h].inode
    BY <2>1, View
  <2>3. Handles[h] = [name |-> root_dir[x].name, offset |-> fds[h].offset]
    BY <1>4, <2>1, <2>2, HandleAt, HandlesIs
  <2>4. h \in DOMAIN Handles
    BY <1>5, <2>1
  <2>5. CASE h = call.fd
    <3>1. f[h] = [Handles[h] EXCEPT !.offset = Handles[h].offset + Piece]
      BY <2>4, <2>5 DEF Store!Advance
    <3>2. f[h] = [name |-> root_dir[x].name, offset |-> fds[h].offset + Piece]
      BY <2>3, <3>1
    <3> QED BY <1>3, <2>1, <2>2, <2>5, <3>2
  <2>6. CASE h # call.fd
    <3>1. f[h] = Handles[h] /\ fds'[h] = fds[h]
      BY <1>1, <2>4, <2>6 DEF Store!Advance
    <3> QED BY <2>2, <2>3, <3>1
  <2> QED BY <2>5, <2>6
<1>7. DOMAIN f = {g \in Fd : fds'[g].used}
  <2> HIDE DEF f
  <2> QED BY <1>1, <1>5
<1> HIDE DEF f
<1>8. HandlesOf(fds', root_dir) = f
  BY <1>4, <1>5, <1>6, <1>7, HandlesUnique
<1> QED BY <1>8, HandlesIs DEF f

\* One iteration of fs_read fetches the next bytes of the file.
LEMMA ReadBlockStep ==
    ASSUME StoreInv, StoreInv', fs_read_block
    PROVE  Store!Read(Piece) /\ Pending.op = "read" /\ Piece \in 1 .. Pending.left
<1>1. /\ call.op = "read" /\ call.done < call.count /\ Index < FS_DIRECT /\ Current # 0
      /\ out' = out \o [k \in 1 .. Piece |-> disk[Current][Within + k - 1]]
      /\ fds' = Advanced /\ call' = Progress
      /\ UNCHANGED <<inodes, root_dir, disk>>
  BY DEF fs_read_block, CanRead
<1>2. /\ Pos + (call.count - call.done) <= inodes[Ino].size /\ fds[call.fd].used
  BY <1>1 DEF StoreInv, FsInv, CallFits
<1>3. /\ Piece \in Nat /\ Pos \in Nat /\ Index \in Nat /\ Within \in Cell /\ 1 <= Piece
      /\ Pos = Index * FS_BLOCK_SIZE + Within /\ Index * FS_BLOCK_SIZE \in Nat
      /\ Piece <= call.count - call.done /\ Within + Piece <= FS_BLOCK_SIZE
      /\ call.fd \in Fd /\ call.done \in Nat /\ call.count \in Nat
  BY <1>1, PieceIs DEF StoreInv
<1>4. /\ Ino \in Files /\ inodes[Ino].size \in Nat /\ inodes[Ino].size <= MaxBytes
  BY <1>2, <1>3, BehindHandle DEF Ino, StoreInv
<1>5. Pos + Piece <= inodes[Ino].size /\ Pos + Piece <= MaxBytes
  BY <1>2, <1>3, <1>4, FsConstants
<1>6. Handles' = Store!Advance(call.fd, Piece)
  BY <1>1, <1>5, HandlesAdvance
<1>7. /\ call'.op = "read" /\ call'.fd = call.fd /\ call'.count = call.count
      /\ call'.done = call.done + Piece
  BY <1>1, <1>5, AdvancedIs DEF StoreInv
<1>8. /\ Pending = [op |-> "read", fd |-> call.fd, left |-> call.count - call.done]
      /\ Pending' = [op |-> "read", fd |-> call.fd, left |-> call.count - (call.done + Piece)]
  BY <1>1, <1>7 DEF Pending
<1>9. /\ Pending.op = "read" /\ Pending.fd = call.fd /\ Piece \in 1 .. Pending.left
      /\ Piece <= Pending.left /\ Pending' = [Pending EXCEPT !.left = @ - Piece]
  <2>1. call.count - (call.done + Piece) = (call.count - call.done) - Piece
    BY <1>3
  <2>2. Piece \in 1 .. (call.count - call.done)
    BY <1>3
  <2> QED BY <1>3, <1>8, <2>1, <2>2
<1>10. Stored' = Stored
  BY <1>1, <1>7, FilesUntouched, IdleLength
<1>11. Stored[Handles[call.fd].name] = Text[Ino] /\ Handles[call.fd].offset = Pos
  BY <1>2, <1>3, Opened DEF Pos, Ino
<1>12. /\ Text[Ino] \in Seq(Byte) /\ Len(Text[Ino]) = inodes[Ino].size
       /\ \A k \in 1 .. inodes[Ino].size :
             Text[Ino][k] = disk[inodes[Ino].blocks[(k - 1) \div FS_BLOCK_SIZE]][(k - 1) % FS_BLOCK_SIZE]
  <2>1. Length(Ino) = inodes[Ino].size
    BY <1>1, IdleLength
  <2> QED BY <1>4, <2>1, TextIs
<1>13. SubSeq(Text[Ino], Pos + 1, Pos + Piece) = [k \in 1 .. Piece |-> disk[Current][Within + k - 1]]
  <2>1. ASSUME NEW k \in 1 .. Piece
        PROVE  Text[Ino][Pos + k] = disk[Current][Within + k - 1]
    <3>1. k \in Nat /\ 1 <= k /\ k <= Piece /\ Within \in Nat /\ FS_BLOCK_SIZE \in Nat \ {0}
      BY <1>3, FsConstants
    <3>2. /\ Within + k - 1 \in 0 .. (FS_BLOCK_SIZE - 1) /\ Pos + k \in 1 .. inodes[Ino].size
          /\ (Pos + k) - 1 = Index * FS_BLOCK_SIZE + (Within + k - 1)
      BY <1>3, <1>4, <1>5, <3>1
    <3> DEFINE x == (Pos + k) - 1
               r == Within + k - 1
    <3>3. x \in Nat /\ r \in 0 .. (FS_BLOCK_SIZE - 1) /\ x = Index * FS_BLOCK_SIZE + r
      BY <1>3, <3>1, <3>2
    <3>4. Text[Ino][Pos + k] = disk[inodes[Ino].blocks[x \div FS_BLOCK_SIZE]][x % FS_BLOCK_SIZE]
      BY <1>12, <3>2
    <3> HIDE DEF x, r
    <3>5. FS_BLOCK_SIZE \in Nat \ {0} /\ Index \in Nat
      BY <1>3, <3>1
    <3>6. x \div FS_BLOCK_SIZE = Index /\ x % FS_BLOCK_SIZE = r
      BY <3>3, <3>5, QuotientUnique
    <3> QED BY <3>4, <3>6 DEF Current, r
  <2>2. SubSeq(Text[Ino], Pos + 1, Pos + Piece) = [k \in 1 .. Piece |-> Text[Ino][Pos + k]]
    <3>1. Pos \in Nat /\ Piece \in Nat /\ Text[Ino] \in Seq(Byte) /\ Pos + Piece <= Len(Text[Ino])
      BY <1>3, <1>5, <1>12
    <3> QED BY <3>1, SubSeqIs
  <2> QED BY <2>1, <2>2
<1>14. out' = out \o SubSeq(Stored[Handles[Pending.fd].name], Handles[Pending.fd].offset + 1,
                           Handles[Pending.fd].offset + Piece)
  BY <1>1, <1>9, <1>11, <1>13
<1> QED BY <1>6, <1>9, <1>10, <1>14 DEF Store!Read

-----------------------------------------------------------------------------
\* What is left of a sequence after d elements: its first n, and the others.
LEMMA RestIs ==
    ASSUME NEW S, NEW t \in Seq(S), NEW d \in Nat, NEW n \in Nat, d + n <= Len(t),
           NEW rest, rest = SubSeq(t, d + 1, Len(t))
    PROVE  /\ Len(rest) = Len(t) - d
           /\ SubSeq(rest, 1, n) = [j \in 1 .. n |-> t[d + j]]
           /\ SubSeq(rest, n + 1, Len(rest)) = SubSeq(t, d + n + 1, Len(t))
<1> DEFINE left == Len(t) - d
<1>1. Len(t) \in Nat /\ left \in Nat /\ left - n \in Nat /\ d + left = Len(t) /\ n + (left - n) = left
      /\ (d + n) + (left - n) = Len(t)
  BY LenProperties
<1> HIDE DEF left
<1>2. rest = [k \in 1 .. left |-> t[d + k]]
  <2>1. SubSeq(t, d + 1, d + left) = [k \in 1 .. left |-> t[d + k]]
    BY <1>1, SubSeqIs
  <2> QED BY <1>1, <2>1
<1>3. \A k \in 1 .. left : t[d + k] \in S
  BY <1>1, ElementOfSeq
<1>4. rest \in Seq(S) /\ Len(rest) = left
  BY <1>1, <1>2, <1>3
<1>5. SubSeq(rest, 0 + 1, 0 + n) = [k \in 1 .. n |-> rest[0 + k]]
  <2>1. 0 + n <= Len(rest)
    BY <1>1, <1>4
  <2> QED BY <1>4, <2>1, SubSeqIs
<1>6. \A k \in 1 .. n : rest[0 + k] = t[d + k]
  BY <1>1, <1>2
<1>7. SubSeq(rest, 1, n) = [j \in 1 .. n |-> t[d + j]]
  BY <1>5, <1>6
<1>8. SubSeq(rest, n + 1, n + (left - n)) = [k \in 1 .. (left - n) |-> rest[n + k]]
  <2>1. n + (left - n) <= Len(rest)
    BY <1>1, <1>4
  <2> QED BY <1>1, <1>4, <2>1, SubSeqIs
<1>9. SubSeq(t, (d + n) + 1, (d + n) + (left - n)) = [k \in 1 .. (left - n) |-> t[(d + n) + k]]
  <2>1. d + n \in Nat /\ (d + n) + (left - n) <= Len(t)
    BY <1>1
  <2> QED BY <1>1, <2>1, SubSeqIs
<1>10. \A k \in 1 .. (left - n) : rest[n + k] = t[(d + n) + k]
  <2>1. ASSUME NEW k \in 1 .. (left - n) PROVE rest[n + k] = t[(d + n) + k]
    <3>1. n + k \in 1 .. left /\ d + (n + k) = (d + n) + k
      BY <1>1
    <3> QED BY <1>2, <3>1
  <2> QED BY <2>1
<1>11. SubSeq(rest, n + 1, Len(rest)) = SubSeq(t, d + n + 1, Len(t))
  BY <1>1, <1>4, <1>8, <1>9, <1>10
<1> QED BY <1>4, <1>7, <1>11 DEF left

\* No other place of any file points at the block an iteration fills.
LEMMA OwnBlock ==
    ASSUME StoreInv, NEW b \in Block \ Metadata, Ino \in Files, Index \in Slot,
           Current # 0 => b = Current, Current = 0 => b \notin block_bitmap,
           NEW i \in Files, NEW s \in Slot, ~(i = Ino /\ s = Index), inodes[i].blocks[s] # 0
    PROVE  inodes[i].blocks[s] # b
<1>1. CASE Current = 0
  <2>1. inodes[i].blocks[s] \in block_bitmap
    BY DEF StoreInv, FsInv, Tables, BitmapsMatchTables
  <2> QED BY <1>1, <2>1
<1>2. CASE Current # 0
  BY <1>2 DEF StoreInv, FsInv, Tables, BlocksNotShared, Current
<1> QED BY <1>1, <1>2

\* The bytes of the file after a piece is copied into a block of it.
LEMMA WrittenText ==
    ASSUME StoreInv, StoreInv', fs_write_block
    PROVE  Text'[Ino] = Store!Overlay(Text[Ino], Pos, [j \in 1 .. Piece |-> call.buf[call.done + j]])
<1>1. /\ FsInv /\ call.op = "write"
  BY DEF fs_write_block, StoreInv
<1>2. /\ Types /\ Ino \in Files /\ Ino \in Inode /\ Pos \in Nat /\ Piece \in Nat
      /\ Index \in Nat /\ Within \in Nat /\ 1 <= Piece
      /\ Within + Piece <= FS_BLOCK_SIZE /\ Pos = Index * FS_BLOCK_SIZE + Within
      /\ Index \in Slot /\ call.done \in Nat
  BY <1>1, WritePosition
<1>i. PICK i \in Files : i = Ino
  BY <1>2
<1>3. FS_BLOCK_SIZE \in Nat \ {0} /\ Index * FS_BLOCK_SIZE \in Nat
  BY <1>2, FsConstants, BlockOrder
<1>4. /\ Length(i) \in Nat /\ Pos <= Length(i)
      /\ Length(i)' = IF Pos + Piece > Length(i) THEN Pos + Piece ELSE Length(i)
  BY <1>1, <1>i, WrittenLength
<1>5. PICK b \in Block \ Metadata, old \in [Cell -> Byte] :
        /\ Current # 0 => b = Current /\ old = disk[b]
        /\ Current = 0 => b \notin block_bitmap
        /\ disk' = [disk EXCEPT ![b] = Copied(old)]
        /\ \A f \in Inode, s \in Slot :
              inodes'[f].blocks[s] = IF f = Ino /\ s = Index THEN b ELSE inodes[f].blocks[s]
  BY <1>1, WrittenBlock
<1>6. disk'[b] = Copied(old) /\ \A c \in Block \ Metadata : c # b => disk'[c] = disk[c]
  BY <1>2, <1>5 DEF Types
<1> DEFINE Q(k) == (k - 1) \div FS_BLOCK_SIZE
           R(k) == (k - 1) % FS_BLOCK_SIZE
           data == [j \in 1 .. Piece |-> call.buf[call.done + j]]
           whole == IF Pos + Piece > Length(i) THEN Pos + Piece ELSE Length(i)
<1>7. Text'[Ino] = [k \in 1 .. Length(i)' |-> disk'[inodes'[Ino].blocks[Q(k)]][R(k)]]
  BY <1>2, <1>i DEF Text, Contents
<1>8. /\ Len(Text[Ino]) = Length(i)
      /\ \A k \in 1 .. Length(i) :
            /\ Q(k) \in Slot /\ R(k) \in Cell
            /\ inodes[Ino].blocks[Q(k)] \in Block \ Metadata
            /\ Text[Ino][k] = disk[inodes[Ino].blocks[Q(k)]][R(k)]
  BY <1>i, TextIs
<1>9. Len(data) = Piece /\ \A j \in 1 .. Piece : data[j] = call.buf[call.done + j]
  BY <1>2
<1> HIDE DEF data
<1>10. Store!Overlay(Text[Ino], Pos, data) =
         [k \in 1 .. whole |-> IF k \in (Pos + 1) .. (Pos + Piece) THEN data[k - Pos] ELSE Text[Ino][k]]
  BY <1>8, <1>9 DEF Store!Overlay
<1>11. ASSUME NEW k \in (Pos + 1) .. (Pos + Piece)
       PROVE  disk'[inodes'[Ino].blocks[Q(k)]][R(k)] = data[k - Pos]
  <2> DEFINE x == k - 1
             r == Within + (k - 1 - Pos)
  <2>1. /\ x \in Nat /\ r \in 0 .. (FS_BLOCK_SIZE - 1) /\ x = Index * FS_BLOCK_SIZE + r
        /\ r \in Within .. (Within + Piece - 1) /\ k - Pos \in 1 .. Piece
        /\ call.done + r - Within + 1 = call.done + (k - Pos)
    BY <1>2, <1>3
  <2> HIDE DEF r
  <2>2. x \div FS_BLOCK_SIZE = Index /\ x % FS_BLOCK_SIZE = r
    <3> HIDE DEF x
    <3>1. FS_BLOCK_SIZE \in Nat \ {0} /\ Index \in Nat
      BY <1>2, <1>3
    <3>2. x \in Nat /\ r \in 0 .. (FS_BLOCK_SIZE - 1) /\ x = Index * FS_BLOCK_SIZE + r
      BY <2>1
    <3> QED BY <3>1, <3>2, QuotientUnique
  <2>3. Q(k) = Index /\ R(k) = r /\ r \in Cell
    BY <2>1, <2>2 DEF Cell
  <2>4. Copied(old)[r] = call.buf[call.done + r - Within + 1]
    BY <2>1, <2>3 DEF Copied
  <2>5. inodes'[Ino].blocks[Index] = b
    BY <1>2, <1>5
  <2>6. data[k - Pos] = call.buf[call.done + (k - Pos)]
    BY <1>9, <2>1
  <2> QED BY <1>6, <2>1, <2>3, <2>4, <2>5, <2>6
<1>12. ASSUME NEW k \in 1 .. Length(i), k \notin (Pos + 1) .. (Pos + Piece)
       PROVE  disk'[inodes'[Ino].blocks[Q(k)]][R(k)] = Text[Ino][k]
  <2>1. /\ Q(k) \in Slot /\ R(k) \in Cell /\ inodes[Ino].blocks[Q(k)] \in Block \ Metadata
        /\ Text[Ino][k] = disk[inodes[Ino].blocks[Q(k)]][R(k)]
    BY <1>8
  <2>2. inodes[Ino].blocks[Q(k)] # 0
    BY <2>1, FsConstants
  <2>3. CASE Q(k) = Index
    <3>1. Current = inodes[Ino].blocks[Q(k)] /\ Current # 0
      BY <2>2, <2>3 DEF Current
    <3>2. R(k) \notin Within .. (Within + Piece - 1)
      <4>1. k \in Nat /\ k - 1 \in Nat
        BY <1>4
      <4>2. k - 1 = Q(k) * FS_BLOCK_SIZE + R(k) /\ R(k) \in Nat
        BY <1>3, <4>1, Division
      <4> HIDE DEF Q, R
      <4>3. k - 1 = Index * FS_BLOCK_SIZE + R(k)
        BY <2>3, <4>2
      <4> QED BY <1>2, <1>3, <1>12, <4>1, <4>2, <4>3
    <3>3. Copied(old)[R(k)] = old[R(k)]
      BY <2>1, <3>2 DEF Copied
    <3>4. inodes'[Ino].blocks[Q(k)] = b /\ b = Current /\ old = disk[b]
      BY <1>2, <1>5, <2>1, <2>3, <3>1
    <3> QED BY <1>6, <2>1, <3>1, <3>3, <3>4
  <2>4. CASE Q(k) # Index
    <3>1. inodes'[Ino].blocks[Q(k)] = inodes[Ino].blocks[Q(k)]
      BY <1>2, <1>5, <2>1, <2>4
    <3>2. inodes[Ino].blocks[Q(k)] # b
      BY <1>2, <1>5, <2>1, <2>2, <2>4, OwnBlock
    <3> QED BY <1>6, <2>1, <3>1, <3>2
  <2> QED BY <2>3, <2>4
<1>13. Text'[Ino] = [k \in 1 .. whole |->
           IF k \in (Pos + 1) .. (Pos + Piece) THEN data[k - Pos] ELSE Text[Ino][k]]
  <2>1. ASSUME NEW k \in 1 .. whole, k \notin (Pos + 1) .. (Pos + Piece) PROVE k \in 1 .. Length(i)
    BY <1>2, <1>4, <2>1
  <2> HIDE DEF Q, R
  <2>2. ASSUME NEW k \in 1 .. whole
        PROVE  disk'[inodes'[Ino].blocks[Q(k)]][R(k)] =
                 IF k \in (Pos + 1) .. (Pos + Piece) THEN data[k - Pos] ELSE Text[Ino][k]
    BY <1>11, <1>12, <2>1
  <2>3. Length(i)' = whole
    BY <1>4
  <2> HIDE DEF whole
  <2> QED BY <1>7, <2>2, <2>3
<1> QED BY <1>10, <1>13 DEF data

\* No other file changes.
LEMMA OthersKeepText ==
    ASSUME StoreInv, StoreInv', fs_write_block, NEW i \in Files, i # Ino
    PROVE  Text'[i] = Text[i]
<1>1. FsInv /\ i \in Inode
  BY View DEF StoreInv
<1>2. Ino \in Files /\ Index \in Slot /\ Types
  BY <1>1, WritePosition
<1>3. Length(i)' = Length(i)
  BY <1>1, WrittenLength
<1>4. PICK b \in Block \ Metadata, old \in [Cell -> Byte] :
        /\ Current # 0 => b = Current
        /\ Current = 0 => b \notin block_bitmap
        /\ disk' = [disk EXCEPT ![b] = Copied(old)]
        /\ \A f \in Inode, s \in Slot :
              inodes'[f].blocks[s] = IF f = Ino /\ s = Index THEN b ELSE inodes[f].blocks[s]
  BY <1>1, WrittenBlock
<1>5. \A c \in Block \ Metadata : c # b => disk'[c] = disk[c]
  BY <1>2, <1>4 DEF Types
<1> DEFINE Q(k) == (k - 1) \div FS_BLOCK_SIZE
           R(k) == (k - 1) % FS_BLOCK_SIZE
<1>6. /\ Text[i] = [k \in 1 .. Length(i) |-> disk[inodes[i].blocks[Q(k)]][R(k)]]
      /\ Text'[i] = [k \in 1 .. Length(i)' |-> disk'[inodes'[i].blocks[Q(k)]][R(k)]]
  BY <1>1 DEF Text, Contents
<1>7. \A k \in 1 .. Length(i) : Q(k) \in Slot /\ inodes[i].blocks[Q(k)] \in Block \ Metadata
  BY TextIs
<1> HIDE DEF Q, R
<1>8. ASSUME NEW k \in 1 .. Length(i)
      PROVE  disk'[inodes'[i].blocks[Q(k)]] = disk[inodes[i].blocks[Q(k)]]
  <2>1. inodes[i].blocks[Q(k)] # 0 /\ Q(k) \in Slot
    BY <1>7, FsConstants
  <2>2. inodes[i].blocks[Q(k)] # b
    BY <1>2, <1>4, <2>1, OwnBlock
  <2>3. inodes'[i].blocks[Q(k)] = inodes[i].blocks[Q(k)]
    BY <1>1, <1>4, <2>1
  <2> QED BY <1>5, <1>7, <2>2, <2>3
<1> QED BY <1>3, <1>6, <1>8

\* One iteration of fs_write stores the next bytes at the descriptor's position.
LEMMA WriteBlockStep ==
    ASSUME StoreInv, StoreInv', fs_write_block
    PROVE  Store!Write(Piece) /\ Pending.op = "write" /\ Piece \in 1 .. Len(Pending.rest)
<1>1. /\ FsInv /\ call.op = "write" /\ call.done < call.count
      /\ fds' = Advanced /\ call' = Progress /\ UNCHANGED <<root_dir, out>>
  BY DEF fs_write_block, CanWrite, StoreInv
<1>2. /\ Piece \in Nat /\ 1 <= Piece /\ Piece <= call.count - call.done
      /\ call.done \in Nat /\ call.count \in Nat /\ call.count <= Len(call.buf)
      /\ Pos + Piece <= MaxBytes /\ call.fd \in Fd /\ fds[call.fd].used
      /\ call'.op = call.op /\ call'.fd = call.fd /\ call'.buf = call.buf
      /\ call'.done = call.done + Piece /\ call \in Calls
  BY <1>1, WritePosition DEF Types
<1>3. call.buf \in Seq(Byte) /\ Len(call.buf) \in Nat
  <2>1. call.buf \in Seq(Byte)
    BY <1>2, FsAssumption, EmptySeq DEF Calls
  <2> QED BY <2>1, LenProperties
<1> DEFINE rest == SubSeq(call.buf, call.done + 1, Len(call.buf))
           data == [j \in 1 .. Piece |-> call.buf[call.done + j]]
<1>4. /\ Pending = [op |-> "write", fd |-> call.fd, rest |-> rest]
      /\ Pending' = [op |-> "write", fd |-> call.fd,
                     rest |-> SubSeq(call.buf, call.done + Piece + 1, Len(call.buf))]
  BY <1>1, <1>2 DEF Pending
<1>5. /\ Len(rest) = Len(call.buf) - call.done /\ SubSeq(rest, 1, Piece) = data
      /\ SubSeq(rest, Piece + 1, Len(rest)) = SubSeq(call.buf, call.done + Piece + 1, Len(call.buf))
  <2>1. /\ call.buf \in Seq(Byte) /\ call.done \in Nat /\ Piece \in Nat
        /\ call.done + Piece <= Len(call.buf) /\ rest = SubSeq(call.buf, call.done + 1, Len(call.buf))
    BY <1>2, <1>3
  <2> DEFINE t == call.buf
             d == call.done
  <2> HIDE DEF rest, t, d
  <2>2. /\ t \in Seq(Byte) /\ d \in Nat /\ Piece \in Nat /\ d + Piece <= Len(t)
        /\ rest = SubSeq(t, d + 1, Len(t))
    BY <2>1 DEF t, d
  <2>3. Len(rest) = Len(t) - d
    BY <2>2, RestIs
  <2>4. SubSeq(rest, 1, Piece) = [j \in 1 .. Piece |-> t[d + j]]
    BY <2>2, RestIs
  <2>5. SubSeq(rest, Piece + 1, Len(rest)) = SubSeq(t, d + Piece + 1, Len(t))
    BY <2>2, RestIs
  <2> QED BY <2>3, <2>4, <2>5 DEF t, d
<1> HIDE DEF rest, data
<1>6. Pending.op = "write" /\ Pending.fd = call.fd /\ Pending.rest = rest
  BY <1>4
<1>7. Pending' = [Pending EXCEPT !.rest = SubSeq(@, Piece + 1, Len(@))]
  <2> DEFINE others == SubSeq(Pending.rest, Piece + 1, Len(Pending.rest))
  <2>1. Pending' = [op |-> "write", fd |-> call.fd, rest |-> others]
    BY <1>4, <1>5, <1>6
  <2> HIDE DEF others
  <2>2. [[op |-> "write", fd |-> call.fd, rest |-> rest] EXCEPT !.rest = others]
          = [op |-> "write", fd |-> call.fd, rest |-> others]
    OBVIOUS
  <2>3. Pending' = [Pending EXCEPT !.rest = others]
    BY <1>4, <2>1, <2>2, Zenon
  <2> QED BY <2>3, Zenon DEF others
<1>8. Piece \in 1 .. Len(Pending.rest) /\ Piece <= Len(Pending.rest)
  <2>1. /\ Piece \in 1 .. (Len(call.buf) - call.done)
        /\ Piece <= Len(call.buf) - call.done
    BY <1>2, <1>3
  <2>2. Len(Pending.rest) = Len(call.buf) - call.done
    BY <1>5, <1>6, Zenon
  <2> QED BY <2>1, <2>2, Zenon
<1>9. Handles' = Store!Advance(call.fd, Piece)
  BY <1>1, <1>2, HandlesAdvance
<1>10. /\ Handles[call.fd].name \in DOMAIN Stored /\ Stored[Handles[call.fd].name] = Text[Ino]
       /\ Handles[call.fd].offset = Pos
  BY <1>2, Opened DEF Ino, Pos
<1>11. Text'[Ino] = Store!Overlay(Text[Ino], Pos, data)
  BY WrittenText DEF data
<1>12. PICK n : n = Handles[call.fd].name
  OBVIOUS
<1>13. Stored' = [Stored EXCEPT ![n] = Text'[Ino]]
  <2> DEFINE f == [Stored EXCEPT ![n] = Text'[Ino]]
  <2>1. DOMAIN f = DOMAIN Stored /\ f = [m \in DOMAIN f |-> f[m]]
    BY DEF Stored
  <2>2. DOMAIN Stored = {m \in Name : \E x \in Entry : root_dir[x].used /\ root_dir[x].name = m}
    BY View DEF FilesOf
  <2>3. PICK e \in Entry : root_dir[e].used /\ root_dir[e].inode = Ino /\ n = root_dir[e].name
    <3>1. PICK e \in Entry : root_dir[e].used /\ root_dir[e].inode = fds[call.fd].inode
      BY <1>2, View
    <3>2. Handles[call.fd] = [name |-> root_dir[e].name, offset |-> fds[call.fd].offset]
      BY <1>2, <3>1, View, HandleAt, HandlesIs
    <3> QED BY <1>12, <3>1, <3>2 DEF Ino
  <2>4. ASSUME NEW x \in Entry, root_dir[x].used
        PROVE  f[root_dir[x].name] = Text'[root_dir[x].inode]
    <3>1. /\ root_dir[x].name \in DOMAIN Stored /\ Stored[root_dir[x].name] = Text[root_dir[x].inode]
      BY <2>4, View, FileAt
    <3>2. CASE x = e
      BY <2>3, <3>1, <3>2
    <3>3. CASE x # e
      <4>1. root_dir[x].name # n /\ root_dir[x].inode # Ino /\ root_dir[x].inode \in Files
        BY <2>3, <2>4, <3>3, View DEF WellFormed
      <4>2. Text'[root_dir[x].inode] = Text[root_dir[x].inode]
        BY <4>1, OthersKeepText
      <4> QED BY <3>1, <4>1, <4>2
    <3> QED BY <3>2, <3>3
  <2> HIDE DEF f
  <2>5. FilesOf(root_dir', Text') = f
    BY <1>1, <2>1, <2>2, <2>4, View, FilesUnique
  <2> QED BY <2>5, ViewNext DEF f
<1>14. Stored' = [Stored EXCEPT ![Handles[Pending.fd].name] =
                    Store!Overlay(@, Handles[Pending.fd].offset, SubSeq(Pending.rest, 1, Piece))]
  BY <1>5, <1>6, <1>10, <1>11, <1>12, <1>13
<1> QED BY <1>1, <1>6, <1>7, <1>8, <1>9, <1>14 DEF Store!Write

-----------------------------------------------------------------------------
\* An empty disk stores nothing.
LEMMA InitStore == fs_init => Store!StoreInit /\ NamesGiven
<1> SUFFICES ASSUME fs_init PROVE Store!StoreInit /\ NamesGiven
  OBVIOUS
<1>1. /\ \A e \in Entry : ~root_dir[e].used
      /\ \A h \in Fd : ~fds[h].used
      /\ call.op = "none" /\ out = << >>
  BY DEF fs_init, ZeroEntry, ZeroFd, NoCall
<1>2. Stored = << >>
  BY <1>1 DEF Stored, find_dirent
<1>3. Handles = << >>
  BY <1>1 DEF Handles
<1>4. Pending = Store!NoJob
  BY <1>1, IdleIsNoJob
<1> QED BY <1>1, <1>2, <1>3, <1>4 DEF Store!StoreInit, NamesGiven

\* Every step of the file system is a step of the store, or changes nothing in it.
LEMMA NextStore ==
    ASSUME StoreInv, StoreInv', [FsNext]_fsvars
    PROVE  [Store!StoreNext]_(Store!fvars)
<1>1. CASE UNCHANGED fsvars
  <2>1. /\ inodes' = inodes /\ root_dir' = root_dir /\ fds' = fds /\ disk' = disk
        /\ call' = call /\ out' = out
    BY <1>1 DEF fsvars
  <2>2. Pending' = Pending /\ Handles' = Handles
    BY <2>1, HandlesIs DEF Pending
  <2>3. Stored' = Stored
    <3>1. \A i \in Files : Length(i)' = Length(i)
      BY <2>1 DEF Length, Pos, Ino
    <3> QED BY <2>1, <3>1, FilesUntouched
  <2> QED BY <2>1, <2>2, <2>3 DEF Store!fvars
<1>2. CASE FsNext
  <2>1. ASSUME NEW name \in Name, fs_create(name) \/ fs_open(name) \/ fs_unlink(name)
        PROVE  Store!StoreNext
    BY <2>1, CreateStep, OpenStep, UnlinkStep DEF Store!StoreNext
  <2>2. ASSUME NEW h \in Fd, fs_close(h) PROVE Store!StoreNext
    BY <2>2, CloseStep DEF Store!StoreNext
  <2>3. ASSUME NEW h \in Fd, NEW n \in Counts, fs_read(h, n) PROVE Store!StoreNext
    BY <2>3, ReadStartStep DEF Store!StoreNext
  <2>4. ASSUME NEW h \in Fd, NEW buf \in Buffers, fs_write(h, buf) PROVE Store!StoreNext
    BY <2>4, WriteStartStep DEF Store!StoreNext
  <2>5. CASE fs_read_block
    BY <2>5, ReadBlockStep DEF Store!StoreNext
  <2>6. CASE fs_write_block
    BY <2>6, WriteBlockStep DEF Store!StoreNext
  <2>7. CASE fs_read_return \/ fs_write_return
    BY <2>7, ReadReturnStep, WriteReturnStep DEF Store!StoreNext
  <2> QED BY <1>2, <2>1, <2>2, <2>3, <2>4, <2>5, <2>6, <2>7 DEF FsNext
<1> QED BY <1>1, <1>2

\* Reading returns what was last written under that name, whatever became of the
\* other files, and a failed write has stored the beginning of its data: to its
\* callers kernel/fs.c is the store of FileStore.
THEOREM FileSystemImplementsStore == FsSpec => ImplementsStore
<1>1. fs_init => Store!StoreInit /\ StoreInv
  BY InitStore, FsInitInv DEF StoreInv
<1>2. StoreInv /\ [FsNext]_fsvars => StoreInv'
  <2>1. NamesGiven /\ UNCHANGED fsvars => NamesGiven'
    BY DEF NamesGiven, fsvars
  <2> QED BY <2>1, FsNextInv, NamesStay DEF StoreInv
<1>3. StoreInv /\ StoreInv' /\ [FsNext]_fsvars => [Store!StoreNext]_(Store!fvars)
  BY NextStore
<1> QED BY <1>1, <1>2, <1>3, PTL DEF FsSpec, ImplementsStore, Store!StoreSpec
=============================================================================
