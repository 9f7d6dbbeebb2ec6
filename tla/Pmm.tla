--------------------------------- MODULE Pmm ---------------------------------
(***************************************************************************)
(* The physical frame allocator of kernel/pmm.c.  Its bitmap is the set of *)
(* frames marked used.  pmm_init reads a memory map from fixed addresses   *)
(* that nothing in the repository writes, so the map it finds is any of    *)
(* Maps; each iteration of its loops is a step.  Nothing in the kernel     *)
(* allocates frames yet: the callers here do what the interface asks, and  *)
(* free only what they were given.                                         *)
(***************************************************************************)
EXTENDS Integers, Sequences, FiniteSets

CONSTANTS FRAME_SIZE,    \* 4096 in the code
          RAM_FRAMES,    \* RAM_BYTES / FRAME_SIZE = 8192
          WORD,          \* 2^32, the width of the address arithmetic
          KERNEL_END,    \* first byte after the kernel image
          LOW_MEMORY,    \* 0x100000
          DISK_START,    \* 0x200000
          DISK_END,      \* 0x300000
          MAX_ENTRIES,   \* 64, beyond which the count is not believed
          Maps           \* memory maps pmm_init may find

RAM_BYTES == RAM_FRAMES * FRAME_SIZE
Frame     == 0 .. (RAM_FRAMES - 1)

ASSUME PmmAssumption ==
    /\ FRAME_SIZE \in Nat \ {0}
    /\ RAM_FRAMES \in Nat \ {0}
    /\ WORD \in Nat /\ RAM_BYTES + FRAME_SIZE < WORD
    /\ KERNEL_END \in Nat /\ FRAME_SIZE <= KERNEL_END
    /\ LOW_MEMORY \in Nat /\ KERNEL_END <= LOW_MEMORY /\ LOW_MEMORY <= RAM_BYTES
    /\ DISK_START \in Nat /\ DISK_START % FRAME_SIZE = 0
    /\ DISK_END \in Nat /\ DISK_END % FRAME_SIZE = 0
    /\ Maps \subseteq Seq([base : Nat, length : Nat, type : Nat])

VARIABLES bitmap,        \* the frames marked used
          free_frames,
          total_frames,
          map,           \* the memory map pmm_init has found
          scan,          \* where pmm_init is: the loop, its entry i, its address a
          owned          \* addresses handed out and not yet returned

pmmvars == <<bitmap, free_frames, total_frames, map, scan, owned>>

\* The places of pmm_init: its loop over the entries, the loop over the frames
\* of one of them, the loop that takes the place of a map that is not believed,
\* the last assignment, and behind it.
Place == {"entries", "frames", "fallback", "last", "done"}

\* All frames used and none counted.
PmmInit ==
    /\ bitmap = Frame /\ free_frames = 0 /\ total_frames = 0
    /\ map \in Maps
    /\ scan = [at |-> "entries", i |-> 1, a |-> 0, end |-> 0]
    /\ owned = {}

-----------------------------------------------------------------------------
InDisk(a) == DISK_START <= a /\ a < DISK_END

\* Fault: a frame is counted whether or not it was free before.
ClearUntested(f) == bitmap' = bitmap \ {f} /\ free_frames' = free_frames + 1

\* A used frame becomes free, and is counted.
Clear(f) ==
    IF f \in bitmap THEN bitmap' = bitmap \ {f} /\ free_frames' = free_frames + 1
                    ELSE UNCHANGED <<bitmap, free_frames>>

\* The addresses an entry of the map begins and ends at: base and length are cut
\* to 32 bits, and their sum as well, and the kernel is skipped.
First(e) == LET start == e.base % WORD IN IF start < KERNEL_END THEN KERNEL_END ELSE start
End(e)   == ((e.base % WORD) + (e.length % WORD)) % WORD

\* A count of none or of too many is not believed.
Distrusted == Len(map) = 0 \/ Len(map) > MAX_ENTRIES

\* The next entry of the map, if it is usable RAM.
next_entry ==
    /\ scan.at = "entries" /\ scan.i <= Len(map)
    /\ LET e == map[scan.i] IN
         scan' = IF e.type = 1 THEN [at |-> "frames", i |-> scan.i, a |-> First(e), end |-> End(e)]
                               ELSE [scan EXCEPT !.i = @ + 1]
    /\ UNCHANGED <<bitmap, free_frames, total_frames, map, owned>>

\* One iteration of a loop over addresses, or its end.
Within == (scan.a + FRAME_SIZE) % WORD <= scan.end

Iterate(more, skip, after) ==
    /\ IF more /\ ~skip THEN Clear(scan.a \div FRAME_SIZE) ELSE UNCHANGED <<bitmap, free_frames>>
    /\ scan' = IF more THEN [scan EXCEPT !.a = (@ + FRAME_SIZE) % WORD] ELSE after
    /\ UNCHANGED <<total_frames, map, owned>>

AfterFrames == [scan EXCEPT !.at = "entries", !.i = @ + 1]

\* Fault: the loop ends at the RAM disk instead of stepping over it.
FramesToDisk ==
    /\ scan.at = "frames"
    /\ Iterate(Within /\ scan.a \div FRAME_SIZE < RAM_FRAMES /\ ~InDisk(scan.a), FALSE, AfterFrames)

next_frame ==
    /\ scan.at = "frames"
    /\ Iterate(Within /\ scan.a \div FRAME_SIZE < RAM_FRAMES, InDisk(scan.a), AfterFrames)

\* After the last entry of a map that is not believed, all RAM above the first
\* megabyte is taken to be usable, too.
no_entry ==
    /\ scan.at = "entries" /\ scan.i > Len(map)
    /\ scan' = IF Distrusted THEN [scan EXCEPT !.at = "fallback", !.a = LOW_MEMORY, !.end = RAM_BYTES]
                             ELSE [scan EXCEPT !.at = "last"]
    /\ UNCHANGED <<bitmap, free_frames, total_frames, map, owned>>

\* Fault: the second loop does not leave out the RAM disk.
LowFrameOfDisk ==
    scan.at = "fallback" /\ Iterate(Within, FALSE, [scan EXCEPT !.at = "last"])

low_frame ==
    scan.at = "fallback" /\ Iterate(Within, InDisk(scan.a), [scan EXCEPT !.at = "last"])

last ==
    /\ scan.at = "last"
    /\ scan' = [scan EXCEPT !.at = "done"]
    /\ total_frames' = RAM_FRAMES
    /\ UNCHANGED <<bitmap, free_frames, map, owned>>

pmm_init == next_entry \/ next_frame \/ no_entry \/ low_frame \/ last

-----------------------------------------------------------------------------
Ready == scan.at = "done"

\* Fault: the scan goes one frame too far.
AllocTooFar ==
    /\ Ready
    /\ \E f \in 0 .. total_frames :
          /\ f \notin bitmap
          /\ \A g \in Frame : g < f => g \in bitmap
          /\ bitmap' = bitmap \cup {f}
          /\ free_frames' = free_frames - 1
          /\ owned' = owned \cup {f * FRAME_SIZE}
          /\ UNCHANGED <<total_frames, map, scan>>

\* The first frame whose bit is clear; when there is none the result is 0 and
\* nothing changes.
pmm_alloc_frame ==
    /\ Ready
    /\ LET Scanned == 0 .. (total_frames - 1) IN
       \/ \E f \in Scanned :
             /\ f \notin bitmap
             /\ \A g \in Scanned : g < f => g \in bitmap
             /\ bitmap' = bitmap \cup {f}
             /\ free_frames' = free_frames - 1
             /\ owned' = owned \cup {f * FRAME_SIZE}
             /\ UNCHANGED <<total_frames, map, scan>>
       \/ Scanned \subseteq bitmap /\ UNCHANGED pmmvars

pmm_free_frame(addr) ==
    /\ Ready
    /\ LET f == addr \div FRAME_SIZE IN
         IF f < total_frames THEN Clear(f) ELSE UNCHANGED <<bitmap, free_frames>>
    /\ owned' = owned \ {addr}
    /\ UNCHANGED <<total_frames, map, scan>>

PmmNext == pmm_init \/ pmm_alloc_frame \/ \E addr \in owned : pmm_free_frame(addr)

PmmSpec == PmmInit /\ [][PmmNext]_pmmvars

-----------------------------------------------------------------------------
\* The allocator's variables have their types, and the loops of pmm_init stay
\* within the map and the width of an address.
PmmTypeOK ==
    /\ bitmap \subseteq Frame
    /\ free_frames \in 0 .. RAM_FRAMES
    /\ total_frames = (IF Ready THEN RAM_FRAMES ELSE 0)
    /\ map \in Maps
    /\ scan.at \in Place /\ scan.i \in 1 .. (Len(map) + 1)
    /\ scan.a \in 0 .. (WORD - 1) /\ scan.end \in 0 .. (WORD - 1)
    /\ owned \subseteq {f * FRAME_SIZE : f \in Frame}

\* free_frames, which meminfo reports, is the number of clear bits, at every
\* iteration of pmm_init and ever after: a frame that several entries of the map
\* cover, or an entry and the second loop, is counted once.
CountMatchesBitmap == free_frames = Cardinality(Frame \ bitmap)

\* The frames that whole frames' worth of bytes from first up to end fall in, the
\* RAM disk left out.
FramesBetween(first, end) ==
    {f \in Frame : \E k \in 0 .. RAM_FRAMES :
        LET a == first + k * FRAME_SIZE
        IN  a + FRAME_SIZE <= end /\ ~InDisk(a) /\ a \div FRAME_SIZE = f}

\* The frames a memory map offers: those of its usable entries, and those above
\* the first megabyte when it is not believed.
Offered ==
    UNION ({FramesBetween(First(map[j]), End(map[j])) : j \in {n \in 1 .. Len(map) : map[n].type = 1}}
             \cup (IF Distrusted THEN {FramesBetween(LOW_MEMORY, RAM_BYTES)} ELSE {}))

\* The frames callers own.
Lent == {addr \div FRAME_SIZE : addr \in owned}

(***************************************************************************)
(* pmm_init frees the frames the memory map offers, all of them and no     *)
(* others, although it stops at the end of RAM and its addresses wrap; and *)
(* from then on each of these is either free or owned by a caller, never   *)
(* both, so that none is handed out twice and none gets lost.              *)
(***************************************************************************)
FramesAccountedFor ==
    Ready => /\ (Frame \ bitmap) \cup Lent = Offered
             /\ Lent \subseteq bitmap

(***************************************************************************)
(* Whatever the memory map says, the RAM disk of the file system is never  *)
(* free, and no frame of the kernel image is handed out, but for the one   *)
(* that holds its last bytes when KERNEL_END is not aligned: that one is   *)
(* rounded down to.                                                        *)
(***************************************************************************)
ReservedStaysReserved ==
    /\ \A f \in Frame : InDisk(f * FRAME_SIZE) => f \in bitmap /\ f * FRAME_SIZE \notin owned
    /\ \A addr \in owned : addr + FRAME_SIZE > KERNEL_END
=============================================================================
