----------------------------- MODULE FileSystem -----------------------------
(***************************************************************************)
(* The read-only file system (file_systems.c): the boot block's directory  *)
(* entries, the inodes and the data blocks, and how read_dentry_by_name,   *)
(* read_data, read_file and read_directory find and read them.             *)
(*                                                                         *)
(* A string is a sequence of characters without its terminating NUL.       *)
(***************************************************************************)
EXTENDS Integers, Sequences, FiniteSets, FiniteSetsExt

CONSTANTS FILENAME_LEN,  \* bytes of a name in a directory entry (32)
          blockSize,     \* bytes of a data block (4096)
          Word,          \* 2^32: int32_t and uint32_t wrap around at it
          Entries,       \* the directory entries: name, type and inode number
          Inodes,        \* the inodes: length and data_block_nums
          Blocks         \* the data blocks

ASSUME FileSystemAssumption ==
    /\ FILENAME_LEN \in Nat \ {0} /\ blockSize \in Nat \ {0} /\ Word \in Nat \ {0}
    /\ \A d \in DOMAIN Entries : Len(Entries[d].name) <= FILENAME_LEN
    /\ \A n \in DOMAIN Inodes : Inodes[n].length \in Nat

NoEntry == 0            \* stands for the -1 of read_dentry_by_name
Failure == -1

(* strncmp(s, t, n) = 0: the first n characters agree, or all that there   *)
(* are.                                                                    *)
SameUpTo(s, t, n) ==
    LET first(u) == SubSeq(u, 1, IF Len(u) < n THEN Len(u) ELSE n)
    IN first(s) = first(t)

(* Mutated form: a name is found by its beginning. *)
FoundByBeginning(fname) ==
    LET found == {d \in DOMAIN Entries : SameUpTo(fname, Entries[d].name, Len(fname))}
    IN IF Len(fname) > FILENAME_LEN \/ found = {} THEN NoEntry ELSE Max(found)

(* The entry with a name, the last one if there are several. *)
read_dentry_by_name(fname) ==
    LET found == {d \in DOMAIN Entries : SameUpTo(fname, Entries[d].name, FILENAME_LEN)}
    IN IF Len(fname) > FILENAME_LEN \/ found = {} THEN NoEntry ELSE Max(found)

(* The byte at an offset of a file, through its block numbers. *)
ByteAt(n, i) == Blocks[Inodes[n].data_block_nums[i \div blockSize]][i % blockSize]

(* An int32_t as the uint32_t it is converted to, and back. *)
Unsigned(i) == i % Word
Signed(i) == LET u == i % Word IN IF 2 * u >= Word THEN u - Word ELSE u

(* Mutated form: the loop ends with the first block. *)
CopiedOneBlock(n, offset, length) ==
    LET stops == {i \in 1 .. Unsigned(length) - 1 : (offset + i) % blockSize = 0}
    IN IF n \notin DOMAIN Inodes THEN Failure
       ELSE IF offset > Inodes[n].length THEN 0
       ELSE IF stops = {} THEN Unsigned(length) ELSE Min(stops)

(* How many bytes read_data copies.  The loop looks for the end of the     *)
(* file only where a block ends, and stops only when it has read past it.  *)
Copied(n, offset, length) ==
    LET rest == Inodes[n].length - offset
        stops == {i \in 1 .. Unsigned(length) - 1 : (offset + i) % blockSize = 0 /\ i > rest}
    IN IF n \notin DOMAIN Inodes THEN Failure
       ELSE IF offset > Inodes[n].length THEN 0
       ELSE IF stops = {} THEN Unsigned(length) ELSE Min(stops)

(* What read_data puts in the caller's buffer. *)
read_data(n, offset, length) ==
    [i \in 1 .. Copied(n, offset, length) |-> ByteAt(n, offset + i - 1)]

(* Mutated form: the request is never shortened. *)
AsAsked(n, position, nbytes) == nbytes

(* read_file shortens a request that would go past the end of the file. *)
Clamped(n, position, nbytes) ==
    IF Signed(position + nbytes) >= Inodes[n].length
    THEN Inodes[n].length - position ELSE nbytes

read_file(n, position, nbytes) == read_data(n, position, Clamped(n, position, nbytes))

(* read_directory: the name at a position; the position after it. *)
read_directory(position) ==
    IF position >= Len(Entries) THEN << >> ELSE Entries[position + 1].name
NextPosition(position) == IF position >= Len(Entries) THEN 0 ELSE position + 1
=============================================================================
