------------------------------ MODULE FileStore ------------------------------
(***************************************************************************)
(* What the file system promises: named sequences of bytes, and handles    *)
(* that read and write them from a position that only moves forward.       *)
(* There are no inodes, blocks or bitmaps here.  One call at a time is in  *)
(* progress and transfers its data in pieces, in order.  A read returns    *)
(* all that was asked for and is there; a write may stop early, having     *)
(* stored the beginning of its data.                                       *)
(***************************************************************************)
EXTENDS Integers, Sequences

CONSTANTS Name,      \* file names
          Fd,        \* handle numbers
          Buffers,   \* what may be written in one call
          Counts     \* how much may be asked for in one call

VARIABLES file,     \* name -> contents, for the names that exist
          handle,   \* fd -> [name, offset], for the handles that are open
          got,      \* what the read in progress has fetched so far
          job       \* the read or write in progress, and what it has yet to do

fvars == <<file, handle, got, job>>

NoJob == [op |-> "none"]

StoreInit ==
    /\ file = << >>
    /\ handle = << >>
    /\ got = << >>
    /\ job = NoJob

\* The function f with x mapped to y, or without x.
With(f, x, y) == [z \in DOMAIN f \cup {x} |-> IF z = x THEN y ELSE f[z]]
Without(f, x) == [z \in DOMAIN f \ {x} |-> f[z]]

Create(n) ==
    /\ n \notin DOMAIN file
    /\ file' = With(file, n, << >>)
    /\ UNCHANGED handle

Remove(n) ==
    /\ n \in DOMAIN file
    /\ \A h \in DOMAIN handle : handle[h].name # n
    /\ file' = Without(file, n)
    /\ UNCHANGED handle

Open(n, h) ==
    /\ n \in DOMAIN file
    /\ h \notin DOMAIN handle
    /\ handle' = With(handle, h, [name |-> n, offset |-> 0])
    /\ UNCHANGED file

Close(h) ==
    /\ h \in DOMAIN handle
    /\ handle' = Without(handle, h)
    /\ UNCHANGED file

\* Between the calls that transfer data, names and handles come and go.
Manage ==
    /\ job = NoJob
    /\ \/ \E n \in Name : \/ Create(n) \/ Remove(n)
                          \/ \E h \in Fd : Open(n, h)
       \/ \E h \in Fd : Close(h)
    /\ UNCHANGED <<got, job>>

-----------------------------------------------------------------------------
Advance(h, n) == [handle EXCEPT ![h].offset = @ + n]

\* A read will fetch what there is, up to n.
StartRead(h, n) ==
    /\ job = NoJob
    /\ h \in DOMAIN handle
    /\ LET there == Len(file[handle[h].name]) - handle[h].offset IN
         job' = [op |-> "read", fd |-> h, left |-> IF n < there THEN n ELSE there]
    /\ UNCHANGED <<file, handle, got>>

Read(n) ==
    /\ job.op = "read" /\ n <= job.left
    /\ LET o == handle[job.fd].offset IN
         got' = got \o SubSeq(file[handle[job.fd].name], o + 1, o + n)
    /\ handle' = Advance(job.fd, n)
    /\ job' = [job EXCEPT !.left = @ - n]
    /\ UNCHANGED file

EndRead ==
    /\ job.op = "read" /\ job.left = 0
    /\ got' = << >>
    /\ job' = NoJob
    /\ UNCHANGED <<file, handle>>

StartWrite(h, data) ==
    /\ job = NoJob
    /\ h \in DOMAIN handle
    /\ job' = [op |-> "write", fd |-> h, rest |-> data]
    /\ UNCHANGED <<file, handle, got>>

\* Old contents with data written over them from position at.
Overlay(old, at, data) ==
    [k \in 1 .. (IF at + Len(data) > Len(old) THEN at + Len(data) ELSE Len(old)) |->
        IF k \in (at + 1) .. (at + Len(data)) THEN data[k - at] ELSE old[k]]

Write(n) ==
    /\ job.op = "write" /\ n <= Len(job.rest)
    /\ file' = [file EXCEPT ![handle[job.fd].name] =
                   Overlay(@, handle[job.fd].offset, SubSeq(job.rest, 1, n))]
    /\ handle' = Advance(job.fd, n)
    /\ job' = [job EXCEPT !.rest = SubSeq(@, n + 1, Len(@))]
    /\ UNCHANGED got

EndWrite == job.op = "write" /\ job' = NoJob /\ UNCHANGED <<file, handle, got>>

StoreNext ==
    \/ Manage
    \/ \E h \in Fd : \/ \E n \in Counts : StartRead(h, n)
                     \/ \E data \in Buffers : StartWrite(h, data)
    \/ job.op = "read" /\ \E n \in 1 .. job.left : Read(n)
    \/ job.op = "write" /\ \E n \in 1 .. Len(job.rest) : Write(n)
    \/ EndRead \/ EndWrite

StoreSpec == StoreInit /\ [][StoreNext]_fvars
=============================================================================
