----------------------------- MODULE MCCommands -----------------------------
(***************************************************************************)
(* A small disk for Commands: blocks of two bytes, names of at most two    *)
(* characters, files that end within a block, at its end and at once, and  *)
(* a file whose blocks are out of order, and the clock, whose inode number *)
(* means nothing.                                                          *)
(***************************************************************************)
EXTENDS Commands

MCEntries == << [name |-> <<".">>, type |-> 1, inode |-> 0],
                [name |-> <<"c">>, type |-> 2, inode |-> 1],
                [name |-> <<"c", "c">>, type |-> 2, inode |-> 2],
                [name |-> <<"t">>, type |-> 2, inode |-> 3],
                [name |-> <<"t", "c">>, type |-> 2, inode |-> 4],
                [name |-> <<"t", "t">>, type |-> 2, inode |-> 0],
                [name |-> <<"c", "t">>, type |-> 0, inode |-> 3] >>

(* data_block_nums has room for more than a file uses; the rest is 0. *)
BlockNums(nums) == [i \in 0 .. 7 |-> IF i < Len(nums) THEN nums[i + 1] ELSE 0]
MCInodes == [n \in 0 .. 4 |->
               CASE n = 0 -> [length |-> 0, data_block_nums |-> BlockNums(<< >>)]
                 [] n = 1 -> [length |-> 2, data_block_nums |-> BlockNums(<<3>>)]
                 [] n = 2 -> [length |-> 3, data_block_nums |-> BlockNums(<<4, 1>>)]
                 [] n = 3 -> [length |-> 5, data_block_nums |-> BlockNums(<<6, 0, 2>>)]
                 [] n = 4 -> [length |-> 4, data_block_nums |-> BlockNums(<<5, 7>>)]]

MCELF == << <<9, 0>> >>
MCBlocks == [b \in 0 .. 7 |-> [a \in 0 .. 1 |->
               IF b \in {3, 4} /\ a = 0 THEN <<9, 0>> ELSE <<b, a>>]]

MCCAT == <<"c">>
MCLS == <<"c", "c">>
MCDOT == <<".">>
AllUpTo(n) == UNION {[1 .. k -> {"c", "t", "space"}] : k \in 1 .. n}
MCCommandsOf == [t \in {1, 2} |->
                   IF t = 1 THEN AllUpTo(4)
                   ELSE {<<"c", "c">>, <<"c", "space", ".">>, <<"c", "space", "t">>}]
=============================================================================
