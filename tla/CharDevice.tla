----------------------------- MODULE CharDevice -----------------------------
(***************************************************************************)
(* Reading and writing the character device charDev.c: several open files, *)
(* each with its offset, over one page and one size, and no lock.  A write *)
(* clears the page, copies and then sets the size; a read works out its    *)
(* length and then copies.                                                 *)
(***************************************************************************)
EXTENDS Integers, SequencesExt

CONSTANTS Files,        \* numbers of the files
          PageSize,     \* NPAGES * PAGE_SIZE
          MaxWrites     \* bound: writes

VARIABLES page,         \* kmalloc_ptr
          size,         \* mdev.size
          file_pc, offset,   \* of each file
          len,          \* of each file: to_read or to_write
          writes,       \* writes begun
          contents,     \* history: what the last write left to be read
          overlap,      \* history: a write running now overlaps another
          seen          \* history: what each file has read since it was opened

disk == <<page, size>>
file == <<file_pc, offset, len>>
history == <<contents, overlap, seen>>
vars == <<disk, file, writes, history>>

\* A write stores the number of its file; 0 is what memset stores.
Garbage == -1       \* what kmalloc returns
Beyond == -2        \* what lies behind the page
Unknown == <<-3>>   \* contents, and seen of a file it does not bind

Init ==
    /\ page = [i \in 1 .. PageSize |-> Garbage] /\ size = 0
    /\ file_pc = [f \in Files |-> "closed"]
    /\ offset = [f \in Files |-> 0] /\ len = [f \in Files |-> 0]
    /\ writes = 0
    /\ contents = <<>> /\ overlap = FALSE /\ seen = [f \in Files |-> Unknown]

-----------------------------------------------------------------------------
Go(f, to) == file_pc' = [file_pc EXCEPT ![f] = to]
Return(f) == Go(f, "idle") /\ len' = [len EXCEPT ![f] = 0]

Writing == {f \in Files : file_pc[f] \in {"clear", "copy", "publish"}}

Open(f) ==
    /\ file_pc[f] = "closed"
    /\ Go(f, "idle")
    /\ offset' = [offset EXCEPT ![f] = 0]
    /\ seen' = [seen EXCEPT ![f] = IF Writing = {} /\ contents # Unknown THEN <<>> ELSE Unknown]
    /\ UNCHANGED <<disk, len, writes, contents, overlap>>

Close(f) ==
    /\ file_pc[f] = "idle"
    /\ Go(f, "closed")
    /\ seen' = [seen EXCEPT ![f] = Unknown]
    /\ UNCHANGED <<disk, offset, len, writes, contents, overlap>>

-----------------------------------------------------------------------------
\* m_write with n bytes; a write past the page is cut.  A file that has read
\* past the page is not used again (bound).
CallWrite(f, n) ==
    /\ file_pc[f] = "idle" /\ writes < MaxWrites /\ offset[f] <= PageSize
    /\ Go(f, "clear")
    /\ len' = [len EXCEPT ![f] = IF n + offset[f] > PageSize THEN PageSize - offset[f] ELSE n]
    /\ writes' = writes + 1
    /\ contents' = Unknown /\ seen' = [g \in Files |-> Unknown]
    /\ overlap' = (Writing # {})
    /\ UNCHANGED <<disk, offset>>

\* memset
Clear(f) ==
    /\ file_pc[f] = "clear"
    /\ Go(f, "copy")
    /\ page' = [i \in 1 .. PageSize |-> 0]
    /\ UNCHANGED <<size, offset, len, writes, history>>

\* copy_from_user; when it fails, it stores zeros for what it could not copy.
CopyFromUser(f) ==
    /\ file_pc[f] = "copy"
    /\ \E n \in 0 .. len[f] :
          /\ page' = [i \in 1 .. PageSize |->
                         IF i \notin offset[f] + 1 .. offset[f] + len[f] THEN page[i]
                         ELSE IF i <= offset[f] + n THEN f ELSE 0]
          /\ \/ n = len[f] /\ Go(f, "publish") /\ UNCHANGED len
             \/ n < len[f] /\ Return(f)
    /\ UNCHANGED <<size, offset, writes, history>>

\* Mutated: the size is that of the last write alone.
WrongPublish(f) ==
    /\ file_pc[f] = "publish"
    /\ Return(f)
    /\ offset' = [offset EXCEPT ![f] = @ + len[f]]
    /\ size' = len[f]
    /\ contents' = IF overlap THEN Unknown
                   ELSE [i \in 1 .. offset'[f] |-> IF i <= offset[f] THEN 0 ELSE f]
    /\ UNCHANGED <<page, writes, overlap, seen>>

Publish(f) ==
    /\ file_pc[f] = "publish"
    /\ Return(f)
    /\ offset' = [offset EXCEPT ![f] = @ + len[f]]
    /\ size' = offset'[f]
    /\ contents' = IF overlap THEN Unknown
                   ELSE [i \in 1 .. offset'[f] |-> IF i <= offset[f] THEN 0 ELSE f]
    /\ UNCHANGED <<page, writes, overlap, seen>>

-----------------------------------------------------------------------------
\* m_read of n bytes.  The comparison is one of unsigned numbers: behind the
\* size, the difference is larger than any n.
CallRead(f, n) ==
    /\ file_pc[f] = "idle" /\ offset[f] <= PageSize
    /\ Go(f, "read")
    /\ len' = [len EXCEPT ![f] = IF offset[f] <= size /\ n > size - offset[f]
                                 THEN size - offset[f] ELSE n]
    /\ UNCHANGED <<disk, offset, writes, history>>

\* copy_to_user, or -EFAULT.
CopyToUser(f) ==
    /\ file_pc[f] = "read"
    /\ Return(f)
    /\ LET data == [i \in 1 .. len[f] |-> IF offset[f] + i > PageSize THEN Beyond
                                          ELSE page[offset[f] + i]]
       IN \/ /\ offset' = [offset EXCEPT ![f] = @ + len[f]]
             /\ seen' = [seen EXCEPT ![f] = IF @ = Unknown THEN @ ELSE @ \o data]
          \/ UNCHANGED <<offset, seen>>
    /\ UNCHANGED <<disk, writes, contents, overlap>>

Next == \E f \in Files :
            \/ Open(f) \/ Close(f)
            \/ \E n \in 1 .. PageSize : CallWrite(f, n) \/ CallRead(f, n)
            \/ Clear(f) \/ CopyFromUser(f) \/ Publish(f) \/ CopyToUser(f)

-----------------------------------------------------------------------------
(* Properties.                                                             *)

\* A file opened after a write that overlapped no other, and closed before
\* the next, reads what that write left - zeros up to where it began, then
\* its data - in order and no byte of anything else, whatever the lengths
\* of its reads, and however its neighbours read; a read finds the end
\* exactly behind it (charDev.c 35-58).
ReaderGetsLastWrite ==
    \A f \in Files : seen[f] # Unknown =>
        /\ IsPrefix(seen[f], contents)
        /\ file_pc[f] = "read" => (len[f] = 0 <=> seen[f] = contents)
=============================================================================
