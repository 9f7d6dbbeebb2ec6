------------------------------ MODULE PmmProofs ------------------------------
(***************************************************************************)
(* Proofs about Pmm, for every memory map, size of RAM and kernel image.   *)
(***************************************************************************)
EXTENDS Pmm, FiniteSetTheorems, SequenceTheorems, TLAPS

\* The address of a frame.
Address(f) == f * FRAME_SIZE

\* A frame that may be handed out: not of the RAM disk, and not below the last
\* frame of the kernel image.
Usable(addr) == ~InDisk(addr) /\ addr + FRAME_SIZE > KERNEL_END

\* The loops of pmm_init stay above the kernel, and in the second one no address
\* wraps.
ScanInv ==
    /\ scan \in [at : Place, i : Nat \ {0}, a : 0 .. (WORD - 1), end : 0 .. (WORD - 1)]
    /\ scan.i <= Len(map) + 1
    /\ scan.at = "frames" => scan.i <= Len(map) /\ KERNEL_END <= scan.a
    /\ scan.at = "fallback" => /\ KERNEL_END <= scan.a /\ scan.a <= RAM_BYTES
                               /\ scan.end = RAM_BYTES

\* Free frames and owned ones are usable; an owned one is marked used.
PmmInv ==
    /\ bitmap \subseteq Frame
    /\ total_frames = IF Ready THEN RAM_FRAMES ELSE 0
    /\ map \in Maps
    /\ ScanInv
    /\ CountMatchesBitmap
    /\ \A f \in Frame \ bitmap : Usable(Address(f))
    /\ \A addr \in owned : /\ \E f \in bitmap : addr = Address(f)
                           /\ Usable(addr)
    /\ ~Ready => owned = {}

-----------------------------------------------------------------------------
\* pmm_free_frame finds the frame back that an address was made from.
LEMMA AddressOf ==
    ASSUME NEW f \in Nat
    PROVE  Address(f) \in Nat /\ Address(f) \div FRAME_SIZE = f
  BY PmmAssumption DEF Address

\* The frame after f begins where f ends.
LEMMA AddressLess ==
    ASSUME NEW f \in Nat, NEW g \in Nat
    PROVE  f < g <=> Address(f) + FRAME_SIZE <= Address(g)
  BY PmmAssumption DEF Address

\* An address lies in the frame that it is divided down to.
LEMMA FrameOf ==
    ASSUME NEW a \in Nat
    PROVE  /\ a \div FRAME_SIZE \in Nat
           /\ Address(a \div FRAME_SIZE) \in Nat
           /\ Address(a \div FRAME_SIZE) <= a
           /\ a < Address(a \div FRAME_SIZE) + FRAME_SIZE
  BY PmmAssumption DEF Address

\* The frames of RAM are those of the addresses below its end; a step from one of
\* them does not wrap.
LEMMA InRam ==
    ASSUME NEW a \in Nat
    PROVE  /\ a \div FRAME_SIZE < RAM_FRAMES <=> a < RAM_BYTES
           /\ a \div FRAME_SIZE < RAM_FRAMES <=> a \div FRAME_SIZE \in Frame
           /\ a <= RAM_BYTES => (a + FRAME_SIZE) % WORD = a + FRAME_SIZE
<1> DEFINE f == a \div FRAME_SIZE
<1>1. f \in Nat /\ RAM_FRAMES \in Nat /\ RAM_BYTES = Address(RAM_FRAMES) /\ RAM_BYTES \in Nat
  BY FrameOf, AddressOf, PmmAssumption DEF RAM_BYTES, Address
<1>2. f < RAM_FRAMES <=> Address(f) + FRAME_SIZE <= RAM_BYTES
  BY <1>1, AddressLess
<1>3. RAM_FRAMES <= f => RAM_BYTES <= Address(f)
  <2>1. RAM_FRAMES < f => RAM_BYTES + FRAME_SIZE <= Address(f)
    BY <1>1, AddressLess
  <2>2. FRAME_SIZE \in Nat /\ Address(f) \in Nat
    BY PmmAssumption, FrameOf
  <2> QED BY <1>1, <2>1, <2>2
<1>4. f < RAM_FRAMES <=> a < RAM_BYTES
  <2>1. Address(f) \in Nat /\ Address(f) <= a /\ a < Address(f) + FRAME_SIZE /\ FRAME_SIZE \in Nat
    BY FrameOf, PmmAssumption
  <2> HIDE DEF f
  <2> QED BY <1>1, <1>2, <1>3, <2>1
<1>5. f < RAM_FRAMES <=> f \in Frame
  BY <1>1 DEF Frame
<1>6. a <= RAM_BYTES => (a + FRAME_SIZE) % WORD = a + FRAME_SIZE
  BY <1>1, PmmAssumption
<1> QED BY <1>4, <1>5, <1>6

\* RAM is a finite number of frames.
LEMMA FrameFinite ==
    /\ IsFiniteSet(Frame)
    /\ Cardinality(Frame) = RAM_FRAMES
    /\ \A S \in SUBSET Frame : /\ IsFiniteSet(S)
                               /\ Cardinality(S) \in 0 .. RAM_FRAMES
<1>1. IsFiniteSet(Frame) /\ Cardinality(Frame) = RAM_FRAMES
  BY PmmAssumption, FS_Interval DEF Frame
<1> QED BY <1>1, FS_Subset, FS_CardinalityType

\* A free frame that becomes used, or a used one that becomes free, changes the
\* number of clear bits by one.
LEMMA OneBit ==
    ASSUME bitmap \subseteq Frame, NEW f \in Frame
    PROVE  /\ f \notin bitmap => Cardinality(Frame \ (bitmap \cup {f})) = Cardinality(Frame \ bitmap) - 1
           /\ f \in bitmap => Cardinality(Frame \ (bitmap \ {f})) = Cardinality(Frame \ bitmap) + 1
<1>1. IsFiniteSet(Frame \ bitmap)
  BY FrameFinite
<1>2. CASE f \notin bitmap
  <2>1. Frame \ (bitmap \cup {f}) = (Frame \ bitmap) \ {f} /\ f \in Frame \ bitmap
    BY <1>2
  <2> QED BY <1>1, <1>2, <2>1, FS_RemoveElement
<1>3. CASE f \in bitmap
  <2>1. Frame \ (bitmap \ {f}) = (Frame \ bitmap) \cup {f} /\ f \notin Frame \ bitmap
    BY <1>3
  <2> QED BY <1>1, <1>3, <2>1, FS_AddElement
<1> QED BY <1>2, <1>3

\* A frame that a loop of pmm_init clears may be handed out: the loops begin at
\* the kernel's end, and the RAM disk begins and ends at a frame.
LEMMA ClearedIsUsable ==
    ASSUME NEW a \in Nat, KERNEL_END <= a, ~InDisk(a)
    PROVE  Usable(Address(a \div FRAME_SIZE))
<1> DEFINE f == a \div FRAME_SIZE
<1>1. f \in Nat /\ Address(f) \in Nat /\ Address(f) <= a /\ a < Address(f) + FRAME_SIZE
  BY FrameOf
<1>2. Address(f) + FRAME_SIZE > KERNEL_END
  BY <1>1, PmmAssumption
<1>3. ASSUME InDisk(Address(f)) PROVE FALSE
  <2>1. DISK_START <= a
    BY <1>1, <1>3, PmmAssumption DEF InDisk
  <2>2. PICK e \in Nat : DISK_END = Address(e)
    <3>1. DISK_END \div FRAME_SIZE \in Nat /\ DISK_END = (DISK_END \div FRAME_SIZE) * FRAME_SIZE
      BY PmmAssumption
    <3> QED BY <3>1 DEF Address
  <2>3. f < e
    <3>1. Address(f) < Address(e)
      BY <1>3, <2>2 DEF InDisk
    <3>2. e < f => Address(e) + FRAME_SIZE <= Address(f)
      BY <1>1, <2>2, AddressLess
    <3>3. FRAME_SIZE \in Nat /\ Address(e) \in Nat
      BY PmmAssumption, AddressOf, <2>2
    <3> QED BY <1>1, <2>2, <3>1, <3>2, <3>3
  <2>4. a < DISK_END
    <3>1. Address(f) + FRAME_SIZE <= Address(e)
      BY <1>1, <2>2, <2>3, AddressLess
    <3>2. FRAME_SIZE \in Nat /\ Address(e) \in Nat
      BY PmmAssumption, AddressOf, <2>2
    <3> QED BY <1>1, <2>2, <3>1, <3>2
  <2> QED BY <1>1, <2>1, <2>4 DEF InDisk
<1> QED BY <1>2, <1>3 DEF Usable

\* The addresses of an entry.
LEMMA EntryBounds ==
    ASSUME NEW e \in [base : Nat, length : Nat, type : Nat]
    PROVE  /\ First(e) \in 0 .. (WORD - 1) /\ First(e) \in Nat /\ KERNEL_END <= First(e)
           /\ End(e) \in 0 .. (WORD - 1) /\ End(e) \in Nat
<1>1. e.base \in Nat /\ e.length \in Nat
  OBVIOUS
<1>2. WORD \in Nat \ {0} /\ KERNEL_END \in 0 .. (WORD - 1)
  <2>1. RAM_BYTES \in Nat
    BY PmmAssumption DEF RAM_BYTES
  <2> QED BY <2>1, PmmAssumption
<1>3. \A x \in Nat : x % WORD \in 0 .. (WORD - 1)
  BY <1>2
<1>4. e.base % WORD \in Nat /\ e.length % WORD \in Nat
  BY <1>1, <1>2, <1>3
<1>5. End(e) \in 0 .. (WORD - 1)
  <2>1. (e.base % WORD) + (e.length % WORD) \in Nat
    BY <1>4
  <2> QED BY <2>1, <1>3 DEF End
<1>6. First(e) \in 0 .. (WORD - 1) /\ KERNEL_END <= First(e)
  BY <1>1, <1>2, <1>3 DEF First
<1> QED BY <1>5, <1>6

-----------------------------------------------------------------------------
\* Clear keeps the count.
LEMMA ClearKeeps ==
    ASSUME PmmInv, NEW f \in Frame, Clear(f)
    PROVE  bitmap' \subseteq Frame /\ CountMatchesBitmap' /\ bitmap' = bitmap \ {f}
<1>1. Cardinality(Frame \ bitmap) \in Nat
  BY FrameFinite
<1>2. CASE f \in bitmap
  BY <1>1, <1>2, OneBit DEF PmmInv, Clear, CountMatchesBitmap
<1>3. CASE f \notin bitmap
  BY <1>1, <1>3 DEF PmmInv, Clear, CountMatchesBitmap
<1> QED BY <1>2, <1>3

\* An iteration of a loop of pmm_init clears the frame at scan.a, unless the loop
\* is at its end or the frame belongs to the RAM disk.
LEMMA IterateEffect ==
    ASSUME PmmInv, ~Ready, scan.a \in Nat, KERNEL_END <= scan.a,
           NEW more \in BOOLEAN, more => scan.a < RAM_BYTES,
           IF more /\ ~InDisk(scan.a) THEN Clear(scan.a \div FRAME_SIZE)
                                     ELSE UNCHANGED <<bitmap, free_frames>>,
           UNCHANGED <<total_frames, map, owned>>
    PROVE  /\ bitmap' \subseteq Frame /\ CountMatchesBitmap'
           /\ bitmap' = bitmap \ (IF more /\ ~InDisk(scan.a) THEN {scan.a \div FRAME_SIZE} ELSE {})
           /\ \A f \in Frame \ bitmap' : Usable(Address(f))
           /\ total_frames' = 0 /\ map' \in Maps /\ owned' = {}
<1>1. CASE more /\ ~InDisk(scan.a)
  <2>1. scan.a \div FRAME_SIZE \in Frame
    BY <1>1, InRam
  <2>2. /\ bitmap' \subseteq Frame /\ CountMatchesBitmap'
        /\ bitmap' = bitmap \ {scan.a \div FRAME_SIZE}
    BY <1>1, <2>1, ClearKeeps
  <2>3. Usable(Address(scan.a \div FRAME_SIZE))
    BY <1>1, ClearedIsUsable
  <2> QED BY <1>1, <2>1, <2>2, <2>3 DEF PmmInv
<1>2. CASE ~(more /\ ~InDisk(scan.a))
  BY <1>2 DEF PmmInv, CountMatchesBitmap
<1> QED BY <1>1, <1>2

\* The entries of the map are records.
LEMMA Entry ==
    ASSUME PmmInv, scan.i <= Len(map)
    PROVE  /\ map[scan.i] \in [base : Nat, length : Nat, type : Nat]
           /\ scan.i \in 1 .. Len(map) /\ Len(map) \in Nat
<1>1. map \in Seq([base : Nat, length : Nat, type : Nat])
  BY PmmAssumption DEF PmmInv
<1>2. scan.i \in Nat \ {0} /\ Len(map) \in Nat
  BY <1>1 DEF PmmInv, ScanInv
<1>3. scan.i \in 1 .. Len(map)
  BY <1>2
<1> QED BY <1>1, <1>2, <1>3, ElementOfSeq

\* A loop over addresses goes on to the next one, or comes to its end.
LEMMA ScanMoves ==
    ASSUME ScanInv, map' = map, NEW a \in 0 .. (WORD - 1), scan' = [scan EXCEPT !.a = a],
           KERNEL_END <= a, scan.at = "fallback" => a <= RAM_BYTES
    PROVE  ScanInv' /\ scan'.at = scan.at
<1>1. scan \in [at : Place, i : Nat \ {0}, a : 0 .. (WORD - 1), end : 0 .. (WORD - 1)]
  BY DEF ScanInv
<1>2. /\ scan' \in [at : Place, i : Nat \ {0}, a : 0 .. (WORD - 1), end : 0 .. (WORD - 1)]
      /\ scan'.at = scan.at /\ scan'.i = scan.i /\ scan'.a = a /\ scan'.end = scan.end
  BY <1>1
<1> QED BY <1>2 DEF ScanInv

LEMMA ScanLeaves ==
    ASSUME ScanInv, map' = map, NEW at \in {"entries", "last"}, NEW i \in Nat \ {0},
           i <= Len(map) + 1, scan' = [scan EXCEPT !.at = at, !.i = i]
    PROVE  ScanInv' /\ scan'.at = at
<1>1. scan \in [at : Place, i : Nat \ {0}, a : 0 .. (WORD - 1), end : 0 .. (WORD - 1)]
  BY DEF ScanInv
<1>2. /\ scan' \in [at : Place, i : Nat \ {0}, a : 0 .. (WORD - 1), end : 0 .. (WORD - 1)]
      /\ scan'.at = at /\ scan'.i = i
  BY <1>1 DEF Place
<1> QED BY <1>2 DEF ScanInv

\* The invariant holds before pmm_init, and its steps keep it.
LEMMA PmmInitInv == PmmInit => PmmInv
<1> SUFFICES ASSUME PmmInit PROVE PmmInv
  OBVIOUS
<1>1. map \in Seq([base : Nat, length : Nat, type : Nat]) /\ Len(map) \in Nat
  BY PmmAssumption DEF PmmInit
<1>2. WORD \in Nat \ {0}
  BY PmmAssumption DEF RAM_BYTES
<1>3. ScanInv
  BY <1>1, <1>2 DEF PmmInit, ScanInv, Place
<1>4. CountMatchesBitmap
  BY FS_EmptySet DEF PmmInit, CountMatchesBitmap
<1> QED BY <1>3, <1>4 DEF PmmInit, PmmInv, Ready

LEMMA NextEntryInv == PmmInv /\ next_entry => PmmInv'
<1> SUFFICES ASSUME PmmInv, next_entry PROVE PmmInv'
  OBVIOUS
<1>1. /\ map[scan.i] \in [base : Nat, length : Nat, type : Nat]
      /\ scan.i \in 1 .. Len(map) /\ Len(map) \in Nat
  <2>1. scan.i <= Len(map)
    BY DEF next_entry
  <2> QED BY <2>1, Entry
<1>2. scan \in [at : Place, i : Nat \ {0}, a : 0 .. (WORD - 1), end : 0 .. (WORD - 1)]
  BY DEF PmmInv, ScanInv
<1>3. ScanInv' /\ ~Ready' /\ ~Ready
  <2>1. CASE map[scan.i].type = 1
    BY <1>1, <2>1, EntryBounds DEF next_entry, ScanInv, Place, Ready
  <2>2. CASE map[scan.i].type # 1
    BY <1>1, <1>2, <2>2 DEF next_entry, ScanInv, Place, Ready
  <2> QED BY <2>1, <2>2
<1> QED BY <1>3 DEF next_entry, PmmInv, CountMatchesBitmap

LEMMA NextFrameInv == PmmInv /\ next_frame => PmmInv'
<1> SUFFICES ASSUME PmmInv, next_frame PROVE PmmInv'
  OBVIOUS
<1> DEFINE more == Within /\ scan.a \div FRAME_SIZE < RAM_FRAMES
<1>1. /\ scan \in [at : Place, i : Nat \ {0}, a : 0 .. (WORD - 1), end : 0 .. (WORD - 1)]
      /\ scan.at = "frames" /\ scan.i <= Len(map) /\ KERNEL_END <= scan.a
      /\ WORD \in Nat /\ Len(map) \in Nat
  BY PmmAssumption DEF next_frame, PmmInv, ScanInv
<1>2. scan.a \in Nat /\ more \in BOOLEAN /\ (more => scan.a < RAM_BYTES)
  BY <1>1, InRam
<1>3. /\ IF more /\ ~InDisk(scan.a) THEN Clear(scan.a \div FRAME_SIZE)
                                     ELSE UNCHANGED <<bitmap, free_frames>>
      /\ UNCHANGED <<total_frames, map, owned>>
      /\ scan' = IF more THEN [scan EXCEPT !.a = (@ + FRAME_SIZE) % WORD] ELSE AfterFrames
  BY DEF next_frame, Iterate
<1> HIDE DEF more
<1>4. RAM_BYTES \in Nat /\ RAM_BYTES + FRAME_SIZE < WORD /\ FRAME_SIZE \in Nat
  BY PmmAssumption DEF RAM_BYTES
<1>5. ScanInv' /\ ~Ready /\ ~Ready'
  <2>1. CASE more
    <3>1. (scan.a + FRAME_SIZE) % WORD = scan.a + FRAME_SIZE
      BY <1>2, <1>4, <2>1, InRam
    <3>2. scan' = [scan EXCEPT !.a = scan.a + FRAME_SIZE]
      BY <1>3, <2>1, <3>1
    <3>3. scan.a + FRAME_SIZE \in 0 .. (WORD - 1) /\ KERNEL_END <= scan.a + FRAME_SIZE
      BY <1>1, <1>2, <1>4, <2>1, PmmAssumption
    <3>4. ScanInv' /\ scan'.at = scan.at
      BY <1>1, <1>3, <3>2, <3>3, ScanMoves DEF PmmInv
    <3> QED BY <1>1, <3>4 DEF Ready
  <2>2. CASE ~more
    <3>1. scan' = [scan EXCEPT !.at = "entries", !.i = scan.i + 1]
      BY <1>3, <2>2 DEF AfterFrames
    <3>2. scan.i + 1 \in Nat \ {0} /\ scan.i + 1 <= Len(map) + 1
      BY <1>1
    <3>3. ScanInv' /\ scan'.at = "entries"
      BY <1>3, <3>1, <3>2, ScanLeaves DEF PmmInv
    <3> QED BY <1>1, <3>3 DEF Ready
  <2> QED BY <2>1, <2>2
<1>6. /\ bitmap' \subseteq Frame /\ CountMatchesBitmap'
      /\ \A f \in Frame \ bitmap' : Usable(Address(f))
      /\ total_frames' = 0 /\ map' \in Maps /\ owned' = {}
  BY <1>1, <1>2, <1>3, <1>5, IterateEffect
<1> QED BY <1>5, <1>6 DEF PmmInv

LEMMA NoEntryInv == PmmInv /\ no_entry => PmmInv'
<1> SUFFICES ASSUME PmmInv, no_entry PROVE PmmInv'
  OBVIOUS
<1>1. scan \in [at : Place, i : Nat \ {0}, a : 0 .. (WORD - 1), end : 0 .. (WORD - 1)]
  BY DEF PmmInv, ScanInv
<1>2. /\ RAM_BYTES \in 0 .. (WORD - 1) /\ LOW_MEMORY \in 0 .. (WORD - 1)
      /\ LOW_MEMORY <= RAM_BYTES /\ KERNEL_END <= LOW_MEMORY
  <2>1. RAM_BYTES \in Nat
    BY PmmAssumption DEF RAM_BYTES
  <2> QED BY <2>1, PmmAssumption
<1>3. ScanInv' /\ ~Ready /\ ~Ready'
  BY <1>1, <1>2 DEF no_entry, PmmInv, ScanInv, Place, Ready
<1> QED BY <1>3 DEF no_entry, PmmInv, CountMatchesBitmap

LEMMA LowFrameInv == PmmInv /\ low_frame => PmmInv'
<1> SUFFICES ASSUME PmmInv, low_frame PROVE PmmInv'
  OBVIOUS
<1>1. /\ scan \in [at : Place, i : Nat \ {0}, a : 0 .. (WORD - 1), end : 0 .. (WORD - 1)]
      /\ scan.at = "fallback" /\ KERNEL_END <= scan.a /\ scan.a <= RAM_BYTES
      /\ scan.end = RAM_BYTES /\ WORD \in Nat /\ scan.i <= Len(map) + 1
  BY PmmAssumption DEF low_frame, PmmInv, ScanInv
<1>2. RAM_BYTES \in Nat /\ RAM_BYTES + FRAME_SIZE < WORD /\ FRAME_SIZE \in Nat \ {0}
  BY PmmAssumption DEF RAM_BYTES
<1>3. (scan.a + FRAME_SIZE) % WORD = scan.a + FRAME_SIZE
  BY <1>1, InRam
<1>4. scan.a \in Nat /\ Within \in BOOLEAN /\ (Within => scan.a + FRAME_SIZE <= RAM_BYTES)
  BY <1>1, <1>3 DEF Within
<1>5. /\ IF Within /\ ~InDisk(scan.a) THEN Clear(scan.a \div FRAME_SIZE)
                                       ELSE UNCHANGED <<bitmap, free_frames>>
      /\ UNCHANGED <<total_frames, map, owned>>
      /\ scan' = IF Within THEN [scan EXCEPT !.a = (@ + FRAME_SIZE) % WORD]
                           ELSE [scan EXCEPT !.at = "last"]
  BY DEF low_frame, Iterate
<1>6. ScanInv' /\ ~Ready /\ ~Ready'
  <2>1. CASE Within
    <3>1. scan' = [scan EXCEPT !.a = scan.a + FRAME_SIZE]
      BY <1>3, <1>5, <2>1
    <3>2. scan.a + FRAME_SIZE \in 0 .. (WORD - 1) /\ KERNEL_END <= scan.a + FRAME_SIZE
      BY <1>1, <1>2, <1>4, <2>1, PmmAssumption
    <3>3. ScanInv' /\ scan'.at = scan.at
      BY <1>4, <1>5, <2>1, <3>1, <3>2, ScanMoves DEF PmmInv
    <3> QED BY <1>1, <3>3 DEF Ready
  <2>2. CASE ~Within
    <3>1. scan' = [scan EXCEPT !.at = "last", !.i = scan.i]
      BY <1>1, <1>5, <2>2
    <3>2. ScanInv' /\ scan'.at = "last"
      BY <1>1, <1>5, <3>1, ScanLeaves DEF PmmInv
    <3> QED BY <1>1, <3>2 DEF Ready
  <2> QED BY <2>1, <2>2
<1>7. Within => scan.a < RAM_BYTES
  BY <1>2, <1>4
<1>8. /\ bitmap' \subseteq Frame /\ CountMatchesBitmap'
      /\ \A f \in Frame \ bitmap' : Usable(Address(f))
      /\ total_frames' = 0 /\ map' \in Maps /\ owned' = {}
  BY <1>1, <1>4, <1>5, <1>6, <1>7, IterateEffect
<1> QED BY <1>6, <1>8 DEF PmmInv

LEMMA LastInv == PmmInv /\ last => PmmInv'
<1> SUFFICES ASSUME PmmInv, last PROVE PmmInv'
  OBVIOUS
<1>1. ScanInv' /\ ~Ready /\ Ready'
  BY DEF last, PmmInv, ScanInv, Place, Ready
<1> QED BY <1>1 DEF last, PmmInv, CountMatchesBitmap

-----------------------------------------------------------------------------
\* pmm_alloc_frame marks the frame it hands out and counts it; or memory is full.
LEMMA AllocEffect ==
    ASSUME PmmInv, pmm_alloc_frame
    PROVE  \/ \E f \in Frame : /\ f \notin bitmap /\ bitmap' = bitmap \cup {f}
                              /\ free_frames' = free_frames - 1
                              /\ owned' = owned \cup {Address(f)}
                              /\ UNCHANGED <<total_frames, map, scan>>
           \/ UNCHANGED pmmvars
<1>1. 0 .. (total_frames - 1) = Frame
  BY DEF PmmInv, pmm_alloc_frame, Frame
<1> QED BY <1>1 DEF pmm_alloc_frame, Address

\* pmm_free_frame finds the frame of an address it is given, and clears it.
LEMMA FreeEffect ==
    ASSUME PmmInv, NEW addr \in owned, pmm_free_frame(addr)
    PROVE  \E f \in bitmap : /\ f \in Frame /\ addr = Address(f) /\ addr \div FRAME_SIZE = f
                            /\ Usable(addr)
                            /\ bitmap' = bitmap \ {f} /\ free_frames' = free_frames + 1
                            /\ owned' = owned \ {addr}
                            /\ UNCHANGED <<total_frames, map, scan>>
<1>1. PICK f \in bitmap : addr = Address(f) /\ Usable(addr)
  BY DEF PmmInv
<1>2. f \in Frame /\ f \in Nat /\ f < RAM_FRAMES /\ addr \div FRAME_SIZE = f
  BY <1>1, AddressOf, PmmAssumption DEF PmmInv, Frame
<1>3. total_frames = RAM_FRAMES
  BY DEF PmmInv, pmm_free_frame
<1>4. Clear(f) /\ owned' = owned \ {addr} /\ UNCHANGED <<total_frames, map, scan>>
  BY <1>2, <1>3 DEF pmm_free_frame
<1> QED BY <1>1, <1>2, <1>4 DEF Clear

LEMMA AllocInv == PmmInv /\ pmm_alloc_frame => PmmInv'
<1> SUFFICES ASSUME PmmInv, pmm_alloc_frame PROVE PmmInv'
  OBVIOUS
<1>t. Cardinality(Frame \ bitmap) \in Nat /\ Ready
  BY FrameFinite DEF pmm_alloc_frame
<1>1. ASSUME NEW f \in Frame, f \notin bitmap, bitmap' = bitmap \cup {f},
             free_frames' = free_frames - 1, owned' = owned \cup {Address(f)},
             UNCHANGED <<total_frames, map, scan>>
      PROVE  PmmInv'
  <2>1. CountMatchesBitmap'
    BY <1>1, OneBit DEF PmmInv, CountMatchesBitmap
  <2>2. Usable(Address(f))
    BY <1>1 DEF PmmInv
  <2>3. \A addr \in owned' : (\E g \in bitmap' : addr = Address(g)) /\ Usable(addr)
    BY <1>1, <2>2 DEF PmmInv
  <2>4. ScanInv' /\ Ready'
    BY <1>1, <1>t DEF PmmInv, ScanInv, Ready
  <2> QED BY <1>1, <1>t, <2>1, <2>3, <2>4 DEF PmmInv
<1>2. CASE UNCHANGED pmmvars
  BY <1>2 DEF pmmvars, PmmInv, CountMatchesBitmap, ScanInv, Ready
<1> QED BY <1>1, <1>2, AllocEffect

LEMMA FreeInv ==
    ASSUME PmmInv, NEW addr \in owned, pmm_free_frame(addr)
    PROVE  PmmInv'
<1>t. Cardinality(Frame \ bitmap) \in Nat /\ Ready
  BY FrameFinite DEF pmm_free_frame
<1>1. PICK f \in bitmap : /\ f \in Frame /\ addr = Address(f) /\ addr \div FRAME_SIZE = f
                         /\ Usable(addr)
                         /\ bitmap' = bitmap \ {f} /\ free_frames' = free_frames + 1
                         /\ owned' = owned \ {addr}
                         /\ UNCHANGED <<total_frames, map, scan>>
  BY FreeEffect
<1>2. CountMatchesBitmap'
  BY <1>1, OneBit DEF PmmInv, CountMatchesBitmap
<1>3. \A other \in owned' : (\E g \in bitmap' : other = Address(g)) /\ Usable(other)
  BY <1>1 DEF PmmInv
<1>4. ScanInv' /\ Ready'
  BY <1>1, <1>t DEF PmmInv, ScanInv, Ready
<1> QED BY <1>1, <1>t, <1>2, <1>3, <1>4 DEF PmmInv

\* Every iteration of pmm_init and every call keeps the inductive invariant.
LEMMA PmmNextInv == PmmInv /\ [PmmNext]_pmmvars => PmmInv'
<1> SUFFICES ASSUME PmmInv, [PmmNext]_pmmvars PROVE PmmInv'
  OBVIOUS
<1>1. CASE pmm_init
  BY <1>1, NextEntryInv, NextFrameInv, NoEntryInv, LowFrameInv, LastInv DEF pmm_init
<1>2. CASE pmm_alloc_frame
  BY <1>2, AllocInv
<1>3. ASSUME NEW addr \in owned, pmm_free_frame(addr) PROVE PmmInv'
  BY <1>3, FreeInv
<1>4. CASE UNCHANGED pmmvars
  BY <1>4 DEF pmmvars, PmmInv, CountMatchesBitmap, ScanInv, Ready
<1> QED BY <1>1, <1>2, <1>3, <1>4 DEF PmmNext

\* The inductive invariant holds in every reachable state.
LEMMA PmmAlways == PmmSpec => []PmmInv
  BY PmmInitInv, PmmNextInv, PTL DEF PmmSpec

\* The bitmap stays within RAM, the count of free frames between nothing and all
\* of it, and the loops of pmm_init within the map and the width of an address.
THEOREM PmmTypeCorrect == PmmSpec => []PmmTypeOK
<1>1. ASSUME PmmInv PROVE PmmTypeOK
  <2>1. /\ scan.at \in Place /\ scan.i \in Nat \ {0} /\ scan.i <= Len(map) + 1
        /\ scan.a \in 0 .. (WORD - 1) /\ scan.end \in 0 .. (WORD - 1)
    BY <1>1 DEF PmmInv, ScanInv
  <2>2. Len(map) \in Nat
    BY <1>1, PmmAssumption DEF PmmInv
  <2>3. scan.i \in 1 .. (Len(map) + 1)
    BY <2>1, <2>2
  <2>4. free_frames \in 0 .. RAM_FRAMES
    BY <1>1, FrameFinite DEF PmmInv, CountMatchesBitmap
  <2>5. owned \subseteq {f * FRAME_SIZE : f \in Frame}
    BY <1>1 DEF PmmInv, Address
  <2> QED BY <1>1, <2>1, <2>3, <2>4, <2>5 DEF PmmInv, PmmTypeOK
<1> QED BY <1>1, PmmAlways, PTL

\* What meminfo reports is the number of clear bits: no iteration of pmm_init
\* counts a frame again that an overlapping entry has freed before it.
THEOREM CountCorrect == PmmSpec => []CountMatchesBitmap
<1>1. PmmInv => CountMatchesBitmap
  BY DEF PmmInv
<1> QED BY <1>1, PmmAlways, PTL

\* Whatever memory map the boot loader leaves, no frame of the RAM disk is ever
\* handed out, nor one of the kernel image but the one with its last bytes.
THEOREM ReservedIsSafe == PmmSpec => []ReservedStaysReserved
<1>1. PmmInv => ReservedStaysReserved
  BY DEF PmmInv, ReservedStaysReserved, Usable, Address
<1> QED BY <1>1, PmmAlways, PTL

-----------------------------------------------------------------------------
(***************************************************************************)
(* What pmm_init frees.  Upto is what the first n iterations of a loop     *)
(* over addresses have freed, Found what the loop over entries has after   *)
(* the first n of them.                                                    *)
(***************************************************************************)
Free == Frame \ bitmap

Upto(first, end, n) ==
    {f \in Frame : \E k \in 0 .. (n - 1) :
        LET a == first + Address(k)
        IN  a + FRAME_SIZE <= end /\ ~InDisk(a) /\ a \div FRAME_SIZE = f}

Segment(j) == FramesBetween(First(map[j]), End(map[j]))

Found(n) == UNION {Segment(j) : j \in {x \in 1 .. n : map[x].type = 1}}

\* At each place of pmm_init, what is free so far; behind it, what is free or
\* lent.
OfferInv ==
    /\ scan.at = "entries" => Free = Found(scan.i - 1)
    /\ scan.at = "frames" =>
         /\ map[scan.i].type = 1 /\ scan.end = End(map[scan.i])
         /\ \E n \in Nat :
              /\ scan.a = First(map[scan.i]) + Address(n)
              /\ Free = Found(scan.i - 1) \cup Upto(First(map[scan.i]), End(map[scan.i]), n)
    /\ scan.at = "fallback" =>
         /\ Distrusted
         /\ \E n \in Nat : /\ scan.a = LOW_MEMORY + Address(n)
                           /\ Free = Found(Len(map)) \cup Upto(LOW_MEMORY, RAM_BYTES, n)
    /\ scan.at = "last" => Free = Offered
    /\ FramesAccountedFor

\* No iteration has freed nothing, and the next one frees its frame.
LEMMA UptoNext ==
    ASSUME NEW first \in Nat, NEW end \in Nat, NEW n \in Nat
    PROVE  /\ Upto(first, end, 0) = {}
           /\ LET a == first + Address(n) IN
                Upto(first, end, n + 1) = Upto(first, end, n) \cup
                    {f \in Frame : a + FRAME_SIZE <= end /\ ~InDisk(a) /\ a \div FRAME_SIZE = f}
<1>1. Upto(first, end, 0) = {}
  BY DEF Upto
<1>2. 0 .. ((n + 1) - 1) = (0 .. (n - 1)) \cup {n}
  OBVIOUS
<1> QED BY <1>1, <1>2 DEF Upto

\* A loop that stops, because the stretch or RAM is at its end, has freed all it
\* should.
LEMMA UptoAll ==
    ASSUME NEW first \in Nat, NEW end \in Nat, NEW n \in Nat,
           \/ RAM_BYTES <= first + Address(n)
           \/ end < first + Address(n) + FRAME_SIZE
    PROVE  FramesBetween(first, end) = Upto(first, end, n)
<1>1. /\ FRAME_SIZE \in Nat \ {0} /\ RAM_FRAMES \in Nat
      /\ RAM_BYTES = Address(RAM_FRAMES) /\ Address(n) \in Nat
  BY PmmAssumption, AddressOf DEF RAM_BYTES, Address
<1>2. ASSUME NEW k \in Nat, NEW m \in Nat, Address(k) < Address(m) PROVE k < m
  <2>1. Address(k) \in Nat /\ Address(m) \in Nat
    BY AddressOf
  <2>2. m < k => Address(m) + FRAME_SIZE <= Address(k)
    BY AddressLess
  <2> QED BY <1>1, <1>2, <2>1, <2>2
<1>3. ASSUME NEW k \in Nat,
             (first + Address(k)) \div FRAME_SIZE \in Frame
      PROVE  first + Address(k) < RAM_BYTES /\ k < RAM_FRAMES
  <2>1. Address(k) \in Nat /\ first + Address(k) \in Nat
    BY AddressOf
  <2>2. first + Address(k) < RAM_BYTES
    BY <1>3, <2>1, InRam
  <2>3. Address(k) < Address(RAM_FRAMES)
    BY <1>1, <2>1, <2>2, AddressOf
  <2> QED BY <1>1, <1>2, <2>2, <2>3
<1>4. ASSUME NEW k \in Nat, first + Address(k) < RAM_BYTES, first + Address(k) + FRAME_SIZE <= end
      PROVE  k < n
  <2>1. Address(k) \in Nat /\ RAM_BYTES \in Nat
    BY <1>1, AddressOf
  <2>2. Address(k) < Address(n)
    BY <1>1, <1>4, <2>1
  <2> QED BY <1>2, <2>2
<1>5. ASSUME NEW f \in FramesBetween(first, end) PROVE f \in Upto(first, end, n)
  <2>1. PICK k \in 0 .. RAM_FRAMES : /\ first + Address(k) + FRAME_SIZE <= end
                                    /\ ~InDisk(first + Address(k))
                                    /\ (first + Address(k)) \div FRAME_SIZE = f
    BY DEF FramesBetween, Address
  <2>2. f \in Frame /\ k \in Nat
    BY <1>1 DEF FramesBetween
  <2>3. k \in 0 .. (n - 1)
    BY <1>3, <1>4, <2>1, <2>2
  <2> QED BY <2>1, <2>2, <2>3 DEF Upto
<1>6. ASSUME NEW f \in Upto(first, end, n) PROVE f \in FramesBetween(first, end)
  <2>1. PICK k \in 0 .. (n - 1) : /\ first + Address(k) + FRAME_SIZE <= end
                                 /\ ~InDisk(first + Address(k))
                                 /\ (first + Address(k)) \div FRAME_SIZE = f
    BY DEF Upto
  <2>2. f \in Frame /\ k \in Nat
    BY DEF Upto
  <2>3. k \in 0 .. RAM_FRAMES
    BY <1>1, <1>3, <2>1, <2>2
  <2> QED BY <2>1, <2>2, <2>3 DEF FramesBetween, Address
<1> QED BY <1>5, <1>6

\* One entry more.
LEMMA FoundNext ==
    ASSUME NEW n \in Nat \ {0}
    PROVE  /\ Found(0) = {}
           /\ map[n].type = 1 => Found(n) = Found(n - 1) \cup Segment(n)
           /\ map[n].type # 1 => Found(n) = Found(n - 1)
<1>1. 1 .. n = (1 .. (n - 1)) \cup {n} /\ 1 .. 0 = {}
  OBVIOUS
<1>2. Found(0) = {}
  BY <1>1 DEF Found
<1>3. map[n].type = 1 => {x \in 1 .. n : map[x].type = 1} = {x \in 1 .. (n - 1) : map[x].type = 1} \cup {n}
  BY <1>1
<1>4. map[n].type # 1 => {x \in 1 .. n : map[x].type = 1} = {x \in 1 .. (n - 1) : map[x].type = 1}
  BY <1>1
<1> QED BY <1>2, <1>3, <1>4 DEF Found

LEMMA OfferedIs ==
    /\ Distrusted => Offered = Found(Len(map)) \cup FramesBetween(LOW_MEMORY, RAM_BYTES)
    /\ ~Distrusted => Offered = Found(Len(map))
  BY DEF Offered, Found, Segment

\* What an iteration does to the frames that are free.
LEMMA OfferIterate ==
    ASSUME NEW first \in Nat, NEW end \in Nat, NEW n \in Nat, NEW S,
           scan.a = first + Address(n), Free = S \cup Upto(first, end, n),
           NEW more \in BOOLEAN,
           more => scan.a + FRAME_SIZE <= end /\ scan.a < RAM_BYTES,
           ~more => RAM_BYTES <= scan.a \/ end < scan.a + FRAME_SIZE,
           bitmap' = bitmap \ (IF more /\ ~InDisk(scan.a) THEN {scan.a \div FRAME_SIZE} ELSE {})
    PROVE  /\ more => /\ scan.a + FRAME_SIZE = first + Address(n + 1)
                      /\ Free' = S \cup Upto(first, end, n + 1)
           /\ ~more => Free' = S \cup FramesBetween(first, end)
<1>1. FRAME_SIZE \in Nat \ {0} /\ Address(n) \in Nat /\ scan.a \in Nat
  <2>1. Address(n) \in Nat
    BY AddressOf
  <2>2. first + Address(n) \in Nat
    BY <2>1
  <2> QED BY <2>1, <2>2, PmmAssumption
<1>2. CASE more
  <2>1. scan.a \div FRAME_SIZE \in Frame
    BY <1>1, <1>2, InRam
  <2>2. Address(n + 1) = Address(n) + FRAME_SIZE
    BY <1>1 DEF Address
  <2>3. scan.a + FRAME_SIZE = first + Address(n + 1)
    BY <1>1, <2>2
  <2>4. Free' = Free \cup {f \in Frame : ~InDisk(scan.a) /\ scan.a \div FRAME_SIZE = f}
    BY <1>2, <2>1 DEF Free
  <2>5. Upto(first, end, n + 1) = Upto(first, end, n) \cup
            {f \in Frame : ~InDisk(scan.a) /\ scan.a \div FRAME_SIZE = f}
    BY <1>2, UptoNext
  <2> QED BY <1>2, <2>3, <2>4, <2>5
<1>3. CASE ~more
  <2>1. FramesBetween(first, end) = Upto(first, end, n)
    BY <1>3, UptoAll
  <2>2. Free' = Free
    BY <1>3 DEF Free
  <2> QED BY <1>3, <2>1, <2>2
<1> QED BY <1>2, <1>3

\* The steps of pmm_init keep OfferInv.
LEMMA OfferNextEntry == PmmInv /\ OfferInv /\ next_entry => OfferInv'
<1> SUFFICES ASSUME PmmInv, OfferInv, next_entry PROVE OfferInv'
  OBVIOUS
<1> DEFINE e == map[scan.i]
<1>1. /\ e \in [base : Nat, length : Nat, type : Nat]
      /\ scan.i \in 1 .. Len(map) /\ scan.i \in Nat \ {0}
      /\ scan \in [at : Place, i : Nat \ {0}, a : 0 .. (WORD - 1), end : 0 .. (WORD - 1)]
  BY Entry DEF next_entry, PmmInv, ScanInv
<1>2. Free = Found(scan.i - 1) /\ Free' = Free /\ map' = map
  BY DEF OfferInv, next_entry, Free
<1>3. CASE e.type = 1
  <2>1. scan'.at = "frames" /\ scan'.i = scan.i /\ scan'.a = First(e) /\ scan'.end = End(e)
    BY <1>3 DEF next_entry
  <2>2. First(e) \in Nat /\ End(e) \in Nat
    BY <1>1, EntryBounds
  <2>3. Upto(First(e), End(e), 0) = {}
    BY <2>2, UptoNext
  <2>4. First(e) = First(e) + Address(0)
    BY <2>2, PmmAssumption DEF Address
  <2>5. scan'.a = First(e) + Address(0) /\ Free' = Found(scan.i - 1) \cup Upto(First(e), End(e), 0)
    BY <1>2, <2>1, <2>3, <2>4
  <2>6. Found(scan.i - 1)' = Found(scan.i - 1)
    BY <1>2, <2>1 DEF Found, Segment
  <2> HIDE DEF e
  <2>7. \E n \in Nat : /\ scan'.a = First(e) + Address(n)
                      /\ Free' = Found(scan.i - 1) \cup Upto(First(e), End(e), n)
    BY <2>5
  <2> USE DEF e
  <2> QED BY <1>2, <1>3, <2>1, <2>6, <2>7 DEF OfferInv, FramesAccountedFor, Ready
<1>4. CASE e.type # 1
  <2>1. scan'.at = "entries" /\ scan'.i = scan.i + 1
    BY <1>1, <1>4 DEF next_entry
  <2>2. Found(scan.i) = Found(scan.i - 1)
    BY <1>1, <1>4, FoundNext
  <2>3. scan'.i - 1 = scan.i
    BY <1>1, <2>1
  <2>4. Free' = Found(scan.i - 1)'
    BY <1>2, <2>2, <2>3 DEF Found, Segment
  <2> QED BY <2>1, <2>4 DEF OfferInv, FramesAccountedFor, Ready
<1> QED BY <1>3, <1>4

LEMMA OfferNextFrame == PmmInv /\ OfferInv /\ next_frame => OfferInv'
<1> SUFFICES ASSUME PmmInv, OfferInv, next_frame PROVE OfferInv'
  OBVIOUS
<1> DEFINE e == map[scan.i]
           more == Within /\ scan.a \div FRAME_SIZE < RAM_FRAMES
           S == Found(scan.i - 1)
<1>1. /\ e \in [base : Nat, length : Nat, type : Nat]
      /\ scan.i \in 1 .. Len(map) /\ scan.i \in Nat \ {0}
      /\ scan \in [at : Place, i : Nat \ {0}, a : 0 .. (WORD - 1), end : 0 .. (WORD - 1)]
      /\ scan.at = "frames" /\ KERNEL_END <= scan.a /\ WORD \in Nat
  BY Entry, PmmAssumption DEF next_frame, PmmInv, ScanInv
<1>2. First(e) \in Nat /\ End(e) \in Nat
  BY <1>1, EntryBounds
<1>3. PICK n \in Nat : scan.a = First(e) + Address(n) /\ Free = S \cup Upto(First(e), End(e), n)
  BY <1>1 DEF OfferInv
<1>4. e.type = 1 /\ scan.end = End(e)
  BY <1>1 DEF OfferInv
<1>5. /\ IF more /\ ~InDisk(scan.a) THEN Clear(scan.a \div FRAME_SIZE)
                                     ELSE UNCHANGED <<bitmap, free_frames>>
      /\ total_frames' = total_frames /\ map' = map /\ owned' = owned
      /\ scan' = IF more THEN [scan EXCEPT !.a = (@ + FRAME_SIZE) % WORD] ELSE AfterFrames
  BY DEF next_frame, Iterate
<1>6. scan.a \in Nat /\ more \in BOOLEAN /\ (more => scan.a < RAM_BYTES)
  BY <1>1, InRam
<1>7. RAM_BYTES \in Nat /\ FRAME_SIZE \in Nat
  BY PmmAssumption DEF RAM_BYTES
<1>8. /\ more => scan.a + FRAME_SIZE <= End(e) /\ (scan.a + FRAME_SIZE) % WORD = scan.a + FRAME_SIZE
      /\ ~more => RAM_BYTES <= scan.a \/ End(e) < scan.a + FRAME_SIZE
  <2>1. scan.a < RAM_BYTES => (scan.a + FRAME_SIZE) % WORD = scan.a + FRAME_SIZE
    BY <1>6, <1>7, InRam
  <2>2. more <=> (scan.a + FRAME_SIZE) % WORD <= End(e) /\ scan.a < RAM_BYTES
    BY <1>4, <1>6, InRam DEF Within
  <2> HIDE DEF more, e
  <2> QED BY <1>2, <1>6, <1>7, <2>1, <2>2
<1> HIDE DEF more
<1>9. bitmap' = bitmap \ (IF more /\ ~InDisk(scan.a) THEN {scan.a \div FRAME_SIZE} ELSE {})
  BY <1>1, <1>5, <1>6, IterateEffect DEF Ready
<1>10. CASE more
  <2>1. scan'.at = "frames" /\ scan'.i = scan.i /\ scan'.end = scan.end
        /\ scan'.a = scan.a + FRAME_SIZE
    BY <1>1, <1>5, <1>8, <1>10
  <2> HIDE DEF e, S
  <2>2. scan'.a = First(e) + Address(n + 1) /\ Free' = S \cup Upto(First(e), End(e), n + 1)
    BY <1>2, <1>3, <1>6, <1>8, <1>9, <1>10, <2>1, OfferIterate
  <2>3. \E m \in Nat : scan'.a = First(e) + Address(m) /\ Free' = S \cup Upto(First(e), End(e), m)
    BY <2>2
  <2>4. Found(scan.i - 1)' = Found(scan.i - 1)
    BY <1>5, <2>1 DEF Found, Segment
  <2> QED BY <1>4, <1>5, <2>1, <2>3, <2>4 DEF OfferInv, FramesAccountedFor, Ready, e, S
<1>11. CASE ~more
  <2>1. scan'.at = "entries" /\ scan'.i = scan.i + 1
    BY <1>1, <1>5, <1>11 DEF AfterFrames
  <2> HIDE DEF e, S
  <2>2. Free' = S \cup FramesBetween(First(e), End(e))
    BY <1>2, <1>3, <1>6, <1>8, <1>9, <1>11, OfferIterate
  <2> USE DEF e, S
  <2>3. Free' = Found(scan.i)
    BY <1>1, <1>4, <2>2, FoundNext DEF Segment
  <2>4. scan'.i - 1 = scan.i
    BY <1>1, <2>1
  <2>5. Free' = Found(scan.i - 1)'
    BY <1>5, <2>3, <2>4 DEF Found, Segment
  <2> QED BY <2>1, <2>5 DEF OfferInv, FramesAccountedFor, Ready
<1> QED BY <1>10, <1>11

LEMMA OfferNoEntry == PmmInv /\ OfferInv /\ no_entry => OfferInv'
<1> SUFFICES ASSUME PmmInv, OfferInv, no_entry PROVE OfferInv'
  OBVIOUS
<1>1. /\ scan \in [at : Place, i : Nat \ {0}, a : 0 .. (WORD - 1), end : 0 .. (WORD - 1)]
      /\ scan.i <= Len(map) + 1 /\ scan.i > Len(map) /\ Len(map) \in Nat
  BY PmmAssumption DEF no_entry, PmmInv, ScanInv
<1>2. scan.i - 1 = Len(map)
  BY <1>1
<1>3. Free = Found(Len(map)) /\ Free' = Free /\ map' = map
  BY <1>2 DEF OfferInv, no_entry, Free
<1>4. CASE Distrusted
  <2>1. scan'.at = "fallback" /\ scan'.a = LOW_MEMORY
    BY <1>1, <1>4 DEF no_entry
  <2>2. LOW_MEMORY \in Nat /\ RAM_BYTES \in Nat
    BY PmmAssumption DEF RAM_BYTES
  <2>3. Upto(LOW_MEMORY, RAM_BYTES, 0) = {} /\ LOW_MEMORY = LOW_MEMORY + Address(0)
    BY <2>2, UptoNext, PmmAssumption DEF Address
  <2>4. scan'.a = LOW_MEMORY + Address(0) /\ Free' = Found(Len(map)) \cup Upto(LOW_MEMORY, RAM_BYTES, 0)
    BY <1>3, <2>1, <2>3
  <2>5. Found(Len(map))' = Found(Len(map)) /\ Distrusted'
    BY <1>3, <1>4 DEF Found, Segment, Distrusted
  <2>6. \E n \in Nat : /\ scan'.a = LOW_MEMORY + Address(n)
                      /\ Free' = Found(Len(map)) \cup Upto(LOW_MEMORY, RAM_BYTES, n)
    BY <2>4
  <2> QED BY <2>1, <2>5, <2>6 DEF OfferInv, FramesAccountedFor, Ready
<1>5. CASE ~Distrusted
  <2>1. scan'.at = "last"
    BY <1>1, <1>5 DEF no_entry, Place
  <2>2. Free' = Offered'
    BY <1>3, <1>5, OfferedIs DEF Offered, Distrusted
  <2> QED BY <2>1, <2>2 DEF OfferInv, FramesAccountedFor, Ready
<1> QED BY <1>4, <1>5

LEMMA OfferLowFrame == PmmInv /\ OfferInv /\ low_frame => OfferInv'
<1> SUFFICES ASSUME PmmInv, OfferInv, low_frame PROVE OfferInv'
  OBVIOUS
<1> DEFINE S == Found(Len(map))
<1>1. /\ scan \in [at : Place, i : Nat \ {0}, a : 0 .. (WORD - 1), end : 0 .. (WORD - 1)]
      /\ scan.at = "fallback" /\ KERNEL_END <= scan.a /\ scan.a <= RAM_BYTES
      /\ scan.end = RAM_BYTES /\ WORD \in Nat /\ scan.a \in Nat
  BY PmmAssumption DEF low_frame, PmmInv, ScanInv
<1>2. LOW_MEMORY \in Nat /\ RAM_BYTES \in Nat /\ FRAME_SIZE \in Nat \ {0}
  BY PmmAssumption DEF RAM_BYTES
<1>3. PICK n \in Nat : /\ scan.a = LOW_MEMORY + Address(n)
                      /\ Free = S \cup Upto(LOW_MEMORY, RAM_BYTES, n)
  BY <1>1 DEF OfferInv
<1>4. Distrusted
  BY <1>1 DEF OfferInv
<1>5. /\ IF Within /\ ~InDisk(scan.a) THEN Clear(scan.a \div FRAME_SIZE)
                                       ELSE UNCHANGED <<bitmap, free_frames>>
      /\ total_frames' = total_frames /\ map' = map /\ owned' = owned
      /\ scan' = IF Within THEN [scan EXCEPT !.a = (@ + FRAME_SIZE) % WORD]
                           ELSE [scan EXCEPT !.at = "last"]
  BY DEF low_frame, Iterate
<1>6. (scan.a + FRAME_SIZE) % WORD = scan.a + FRAME_SIZE
  BY <1>1, InRam
<1>7. Within \in BOOLEAN /\ (Within <=> scan.a + FRAME_SIZE <= RAM_BYTES)
  BY <1>1, <1>6 DEF Within
<1>8. /\ Within => scan.a + FRAME_SIZE <= RAM_BYTES /\ scan.a < RAM_BYTES
      /\ ~Within => RAM_BYTES < scan.a + FRAME_SIZE
  BY <1>1, <1>2, <1>7
<1>9. bitmap' = bitmap \ (IF Within /\ ~InDisk(scan.a) THEN {scan.a \div FRAME_SIZE} ELSE {})
  BY <1>1, <1>5, <1>7, <1>8, IterateEffect DEF Ready
<1>10. S' = S /\ Distrusted'
  BY <1>4, <1>5 DEF Found, Segment, Distrusted
<1> HIDE DEF S
<1>11. /\ Within => /\ scan.a + FRAME_SIZE = LOW_MEMORY + Address(n + 1)
                    /\ Free' = S \cup Upto(LOW_MEMORY, RAM_BYTES, n + 1)
       /\ ~Within => Free' = S \cup FramesBetween(LOW_MEMORY, RAM_BYTES)
  BY <1>2, <1>3, <1>7, <1>8, <1>9, OfferIterate
<1>12. CASE Within
  <2>1. scan'.at = "fallback" /\ scan'.a = scan.a + FRAME_SIZE
    BY <1>1, <1>5, <1>6, <1>12
  <2>2. \E m \in Nat : /\ scan'.a = LOW_MEMORY + Address(m)
                      /\ Free' = S \cup Upto(LOW_MEMORY, RAM_BYTES, m)
    BY <1>11, <1>12, <2>1
  <2> QED BY <1>10, <2>1, <2>2 DEF OfferInv, FramesAccountedFor, Ready, S
<1>13. CASE ~Within
  <2>1. scan'.at = "last"
    BY <1>1, <1>5, <1>13 DEF Place
  <2>2. Free' = Offered
    BY <1>4, <1>11, <1>13, OfferedIs DEF S
  <2>3. Offered' = Offered
    BY <1>5 DEF Offered, Distrusted
  <2> QED BY <2>1, <2>2, <2>3 DEF OfferInv, FramesAccountedFor, Ready
<1> QED BY <1>12, <1>13

LEMMA OfferLast == PmmInv /\ OfferInv /\ last => OfferInv'
<1> SUFFICES ASSUME PmmInv, OfferInv, last PROVE OfferInv'
  OBVIOUS
<1>1. scan'.at = "done" /\ scan.at = "last" /\ map' = map
  BY DEF last, PmmInv, ScanInv, Place
<1>2. Free' = Offered
  BY <1>1 DEF OfferInv, Free, last
<1>3. Offered' = Offered
  BY <1>1 DEF Offered, Distrusted
<1>4. Lent' = {}
  BY <1>1 DEF PmmInv, Ready, last, Lent
<1> QED BY <1>1, <1>2, <1>3, <1>4 DEF OfferInv, FramesAccountedFor, Free

-----------------------------------------------------------------------------
\* OfferInv speaks of the variables only.
LEMMA OfferStutter == OfferInv /\ UNCHANGED pmmvars => OfferInv'
<1> SUFFICES ASSUME OfferInv, UNCHANGED pmmvars PROVE OfferInv'
  OBVIOUS
<1>1. bitmap' = bitmap /\ map' = map /\ scan' = scan /\ owned' = owned
  BY DEF pmmvars
<1>2. Free' = Free /\ Offered' = Offered /\ Lent' = Lent /\ (Distrusted' <=> Distrusted)
  BY <1>1 DEF Free, Offered, Lent, Distrusted
<1>3. Found(scan.i - 1)' = Found(scan.i - 1) /\ Found(Len(map))' = Found(Len(map))
  BY <1>1 DEF Found, Segment
<1>4. FramesAccountedFor'
  BY <1>1, <1>2 DEF OfferInv, FramesAccountedFor, Ready
<1> QED BY <1>1, <1>2, <1>3, <1>4 DEF OfferInv

\* A frame handed out is no longer free but lent, and one that is returned no
\* longer lent but free.
LEMMA OfferAlloc == PmmInv /\ OfferInv /\ pmm_alloc_frame => OfferInv'
<1> SUFFICES ASSUME PmmInv, OfferInv, pmm_alloc_frame PROVE OfferInv'
  OBVIOUS
<1>1. ASSUME NEW f \in Frame, f \notin bitmap, bitmap' = bitmap \cup {f},
             owned' = owned \cup {Address(f)}, UNCHANGED <<total_frames, map, scan>>
      PROVE  OfferInv'
  <2>1. Address(f) \div FRAME_SIZE = f
    BY AddressOf, PmmAssumption DEF Frame
  <2>2. Lent' = Lent \cup {f}
    BY <1>1, <2>1 DEF Lent
  <2>3. Offered' = Offered /\ scan' = scan
    BY <1>1 DEF Offered, Distrusted
  <2>4. (Frame \ bitmap) \cup Lent = Offered /\ Lent \subseteq bitmap
    BY DEF OfferInv, FramesAccountedFor, pmm_alloc_frame
  <2>5. ((Frame \ bitmap) \cup Lent)' = Offered /\ Lent' \subseteq bitmap'
    BY <1>1, <2>2, <2>4
  <2> QED BY <2>3, <2>5 DEF OfferInv, FramesAccountedFor, pmm_alloc_frame, Ready
<1>2. CASE UNCHANGED pmmvars
  BY <1>2, OfferStutter
<1> QED BY <1>1, <1>2, AllocEffect

LEMMA OfferFree ==
    ASSUME PmmInv, OfferInv, NEW addr \in owned, pmm_free_frame(addr)
    PROVE  OfferInv'
<1>1. PICK f \in bitmap : /\ f \in Frame /\ addr = Address(f) /\ addr \div FRAME_SIZE = f
                         /\ bitmap' = bitmap \ {f} /\ owned' = owned \ {addr}
                         /\ UNCHANGED <<total_frames, map, scan>>
  BY FreeEffect
<1>2. ASSUME NEW other \in owned', other \div FRAME_SIZE = f PROVE FALSE
  <2>1. PICK g \in bitmap : other = Address(g)
    BY <1>1 DEF PmmInv
  <2>2. g \in Nat
    BY PmmAssumption DEF PmmInv, Frame
  <2>3. g = f
    BY <1>2, <2>1, <2>2, AddressOf
  <2> QED BY <1>1, <1>2, <2>1, <2>3
<1>3. Lent' = Lent \ {f} /\ f \in Lent
  BY <1>1, <1>2 DEF Lent
<1>4. Offered' = Offered /\ scan' = scan
  BY <1>1 DEF Offered, Distrusted
<1>5. (Frame \ bitmap) \cup Lent = Offered /\ Lent \subseteq bitmap
  BY DEF OfferInv, FramesAccountedFor, pmm_free_frame
<1>6. ((Frame \ bitmap) \cup Lent)' = Offered /\ Lent' \subseteq bitmap'
  BY <1>1, <1>3, <1>5
<1> QED BY <1>4, <1>6 DEF OfferInv, FramesAccountedFor, pmm_free_frame, Ready

LEMMA OfferInit == PmmInit => OfferInv
<1> SUFFICES ASSUME PmmInit PROVE OfferInv
  OBVIOUS
<1>1. scan.at = "entries" /\ scan.i - 1 = 0 /\ Free = {}
  BY DEF PmmInit, Free
<1>2. Found(0) = {}
  BY FoundNext
<1> QED BY <1>1, <1>2 DEF OfferInv, FramesAccountedFor, Ready

\* pmm_init frees exactly the frames the memory map offers, for every map and
\* size of RAM; afterwards each is either free or owned by one caller, so none
\* is handed out twice or lost, to callers that free only what they own.
THEOREM FramesNeverLost == PmmSpec => []FramesAccountedFor
<1>1. PmmInit => OfferInv
  BY OfferInit
<1>2. PmmInv /\ OfferInv /\ [PmmNext]_pmmvars => OfferInv'
  <2> SUFFICES ASSUME PmmInv, OfferInv, [PmmNext]_pmmvars PROVE OfferInv'
    OBVIOUS
  <2>1. CASE pmm_init
    BY <2>1, OfferNextEntry, OfferNextFrame, OfferNoEntry, OfferLowFrame, OfferLast DEF pmm_init
  <2>2. CASE pmm_alloc_frame
    BY <2>2, OfferAlloc
  <2>3. ASSUME NEW addr \in owned, pmm_free_frame(addr) PROVE OfferInv'
    BY <2>3, OfferFree
  <2>4. CASE UNCHANGED pmmvars
    BY <2>4, OfferStutter
  <2> QED BY <2>1, <2>2, <2>3, <2>4 DEF PmmNext
<1>3. OfferInv => FramesAccountedFor
  BY DEF OfferInv
<1> QED BY <1>1, <1>2, <1>3, PmmAlways, PTL DEF PmmSpec
=============================================================================
