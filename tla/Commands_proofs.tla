-------------------------- MODULE Commands_proofs ---------------------------
(***************************************************************************)
(* Theorems about module Commands, for every disk, every set of commands   *)
(* and any number of terminals: the program that runs is the one that was  *)
(* typed, all of its file is loaded, and cat and ls print exactly what was *)
(* asked for.                                                              *)
(***************************************************************************)
EXTENDS Commands, WellFoundedInduction, FiniteSetTheorems, TLAPS

-----------------------------------------------------------------------------
(* What the theorems assume. *)

(* The directory has entries with names that are there, are different and  *)
(* consist of Characters, and inodes that exist.                           *)
GoodDirectory(Characters) ==
    /\ Entries \in Seq([name : Seq(Characters), type : 0 .. 2, inode : DOMAIN Inodes])
    /\ \A d \in DOMAIN Entries : Name(d) # << >>
    /\ \A d, e \in DOMAIN Entries : Name(d) = Name(e) => d = e
    /\ CAT \in Seq(Characters) /\ LS \in Seq(Characters) /\ DOT \in Seq(Characters)
    /\ CAT # LS

(* No position in a file, no request and no image comes near the end of    *)
(* the 32 bits, and a line fits into args.                                 *)
FitsTheWidth(Characters) ==
    /\ \A n \in DOMAIN Inodes, nbytes \in ReadSizes :
           2 * (Inodes[n].length + nbytes) < Word
    /\ ImageSize \in Nat /\ ImageSize < Word
    /\ \A t \in Terminals : \A cmd \in Commands[t] :
           cmd \in Seq(Characters) /\ Len(cmd) =< ArgsSize + 1

(* Users wait with a command while another terminal's program has not yet  *)
(* fetched its arguments, and type one space at most.                      *)
Calm(Characters) ==
    /\ GoodDirectory(Characters) /\ FitsTheWidth(Characters)
    /\ Habits = {}

-----------------------------------------------------------------------------
(* The least and the greatest of a set of numbers. *)

LEMMA LeastNumber ==
    ASSUME NEW T \in SUBSET Nat, T # {}
    PROVE  \E x \in T : \A y \in T : x =< y
<1>1. IsWellFoundedOn(OpToRel(<, Nat), Nat)
  BY NatLessThanWellFounded
<1>2. PICK x \in T : \A y \in T : <<y, x>> \notin OpToRel(<, Nat)
  BY <1>1, WFMin
<1>3. \A y \in T : ~(y < x)
  BY <1>2 DEF OpToRel
<1> QED
  BY <1>3

LEMMA MinIsLeast ==
    ASSUME NEW T \in SUBSET Nat, T # {}
    PROVE  Min(T) \in T /\ \A y \in T : Min(T) =< y
BY LeastNumber DEF Min

LEMMA MaxIsGreatest ==
    ASSUME NEW n \in Nat, NEW T \in SUBSET (0 .. n), T # {}
    PROVE  Max(T) \in T /\ \A y \in T : y =< Max(T)
<1> DEFINE distances == {n - x : x \in T}
<1>1. distances \in SUBSET Nat
  OBVIOUS
<1>2. distances # {}
  <2>1. PICK x \in T : TRUE
    OBVIOUS
  <2>2. n - x \in distances
    BY <2>1
  <2> QED
    BY <2>2
<1>3. PICK d \in distances : \A e \in distances : d =< e
  <2> HIDE DEF distances
  <2> QED
    BY <1>1, <1>2, LeastNumber
<1>4. PICK m \in T : d = n - m
  BY <1>3
<1>5. \A y \in T : y =< m
  <2> SUFFICES ASSUME NEW y \in T PROVE y =< m
    OBVIOUS
  <2>1. n - y \in distances
    OBVIOUS
  <2>2. d =< n - y
    BY <1>3, <2>1
  <2> QED
    BY <1>4, <2>2
<1>6. \E x \in T : \A y \in T : x >= y
  BY <1>5
<1> QED
  BY <1>6 DEF Max

(* The first part of a sequence and what follows it in the whole.          *)
LEMMA Continued ==
    ASSUME NEW X, NEW w \in Seq(X), NEW k \in 0 .. Len(w), NEW m \in Nat,
           k + m =< Len(w), NEW s \in Seq(X), Len(s) = m,
           \A i \in 1 .. m : s[i] = w[k + i]
    PROVE  SubSeq(w, 1, k) \o s = SubSeq(w, 1, k + m)
OBVIOUS

LEMMA WholeSubSeq ==
    ASSUME NEW X, NEW w \in Seq(X)
    PROVE  SubSeq(w, 1, Len(w)) = w
OBVIOUS

-----------------------------------------------------------------------------
(* The file system. *)

(* For names that fit, strncmp tells whether they are the same.            *)
LEMMA SameNames ==
    ASSUME NEW C, NEW s \in Seq(C), NEW u \in Seq(C), NEW n \in Nat,
           Len(s) =< n, Len(u) =< n
    PROVE  SameUpTo(s, u, n) <=> s = u
<1>1. \/ Len(s) < n
      \/ Len(s) = n
  OBVIOUS
<1>2. \/ Len(u) < n
      \/ Len(u) = n
  OBVIOUS
<1>3. SubSeq(s, 1, Len(s)) = s /\ SubSeq(u, 1, Len(u)) = u
  BY WholeSubSeq
<1> QED
  BY <1>1, <1>2, <1>3 DEF SameUpTo

LEMMA GoodEntries ==
    ASSUME NEW C, GoodDirectory(C)
    PROVE  /\ DOMAIN Entries = 1 .. Len(Entries) /\ Len(Entries) \in Nat
           /\ \A d \in DOMAIN Entries : /\ Entries[d].name \in Seq(C)
                                        /\ Entries[d].inode \in DOMAIN Inodes
<1> DEFINE E == [name : Seq(C), type : 0 .. 2, inode : DOMAIN Inodes]
<1>1. Entries \in Seq(E)
  BY DEF GoodDirectory
<1>2. \A e \in E : e.name \in Seq(C) /\ e.inode \in DOMAIN Inodes
  OBVIOUS
<1> HIDE DEF E
<1>3. DOMAIN Entries = 1 .. Len(Entries) /\ Len(Entries) \in Nat
  BY <1>1
<1>4. \A d \in DOMAIN Entries : Entries[d] \in E
  BY <1>1
<1> QED
  BY <1>2, <1>3, <1>4

(* read_dentry_by_name finds an entry with the name, if there is one.      *)
LEMMA FindsTheName ==
    ASSUME NEW C, GoodDirectory(C), NEW fname \in Seq(C)
    PROVE  LET d == read_dentry_by_name(fname) IN
           /\ d = NoEntry \/ (d \in DOMAIN Entries /\ Name(d) = fname)
           /\ (\E e \in DOMAIN Entries : Name(e) = fname) =>
                  d \in DOMAIN Entries /\ Name(d) = fname
<1> DEFINE found == {d \in DOMAIN Entries : SameUpTo(fname, Entries[d].name, FILENAME_LEN)}
<1>1. /\ DOMAIN Entries = 1 .. Len(Entries) /\ Len(Entries) \in Nat
      /\ \A d \in DOMAIN Entries : Name(d) = Entries[d].name /\ Name(d) \in Seq(C)
                                   /\ Len(Name(d)) =< FILENAME_LEN
  <2>1. \A d \in DOMAIN Entries : Entries[d].name \in Seq(C)
    BY GoodEntries
  <2>2. DOMAIN Entries = 1 .. Len(Entries) /\ Len(Entries) \in Nat
    BY GoodEntries
  <2>3. \A d \in DOMAIN Entries : Len(Entries[d].name) =< FILENAME_LEN
    BY FileSystemAssumption DEF FileSystemAssumption
  <2> QED
    BY <2>1, <2>2, <2>3 DEF Name
<1>2. FILENAME_LEN \in Nat
  BY FileSystemAssumption DEF FileSystemAssumption
<1>3. CASE Len(fname) > FILENAME_LEN
  <2>1. read_dentry_by_name(fname) = NoEntry
    BY <1>3 DEF read_dentry_by_name
  <2>2. ~\E e \in DOMAIN Entries : Name(e) = fname
    BY <1>1, <1>2, <1>3
  <2> QED
    BY <2>1, <2>2
<1>4. CASE ~(Len(fname) > FILENAME_LEN)
  <2>1. Len(fname) =< FILENAME_LEN
    BY <1>2, <1>4
  <2>2. found = {d \in DOMAIN Entries : Name(d) = fname}
    BY <1>1, <1>2, <2>1, SameNames
  <2>3. read_dentry_by_name(fname) = IF found = {} THEN NoEntry ELSE Max(found)
    BY <1>4 DEF read_dentry_by_name
  <2>4. CASE found = {}
    BY <2>2, <2>3, <2>4
  <2>5. CASE found # {}
    <3>1. found \in SUBSET (0 .. Len(Entries))
      BY <1>1
    <3>2. Max(found) \in found
      BY <1>1, <2>5, <3>1, MaxIsGreatest
    <3> QED
      BY <2>2, <2>3, <2>5, <3>2
  <2> QED
    BY <2>4, <2>5
<1> QED
  BY <1>3, <1>4

(* The bytes of the disk. *)
Bytes == {ByteAt(n, i) : n \in DOMAIN Inodes, i \in Nat}

LEMMA ContentsType ==
    ASSUME NEW n \in DOMAIN Inodes
    PROVE  /\ Inodes[n].length \in Nat
           /\ Contents(n) \in Seq(Bytes) /\ Len(Contents(n)) = Inodes[n].length
           /\ \A i \in 1 .. Inodes[n].length : Contents(n)[i] = ByteAt(n, i - 1)
<1>1. Inodes[n].length \in Nat
  BY FileSystemAssumption DEF FileSystemAssumption
<1>2. \A i \in 1 .. Inodes[n].length : ByteAt(n, i - 1) \in Bytes
  BY <1>1 DEF Bytes
<1> QED
  BY <1>1, <1>2 DEF Contents

LEMMA UnsignedNumber ==
    ASSUME NEW i \in Nat, i < Word
    PROVE  Unsigned(i) = i
<1>1. Word \in Nat \ {0}
  BY FileSystemAssumption DEF FileSystemAssumption
<1> QED
  BY <1>1 DEF Unsigned

(* Within the file, read_data copies what it is asked for.                 *)
LEMMA CopiesWithin ==
    ASSUME NEW n \in DOMAIN Inodes, NEW offset \in Nat, NEW length \in Nat,
           offset + length =< Inodes[n].length, length < Word
    PROVE  Copied(n, offset, length) = length
<1>1. Inodes[n].length \in Nat
  BY ContentsType
<1>2. {i \in 1 .. length - 1 :
          (offset + i) % blockSize = 0 /\ i > Inodes[n].length - offset} = {}
  BY <1>1
<1>3. ~(offset > Inodes[n].length)
  BY <1>1
<1> QED
  BY <1>2, <1>3, UnsignedNumber DEF Copied

(* Asked for more than there is, it copies all that there is and more.     *)
LEMMA CopiesAll ==
    ASSUME NEW n \in DOMAIN Inodes, NEW length \in Nat,
           Inodes[n].length < length, length < Word
    PROVE  Copied(n, 0, length) \in Nat /\ Inodes[n].length =< Copied(n, 0, length)
<1> DEFINE stops == {i \in 1 .. length - 1 :
                        (0 + i) % blockSize = 0 /\ i > Inodes[n].length - 0}
<1>1. Inodes[n].length \in Nat
  BY ContentsType
<1>2. Copied(n, 0, length) = IF stops = {} THEN length ELSE Min(stops)
  <2>1. ~(0 > Inodes[n].length) /\ n \in DOMAIN Inodes /\ Unsigned(length) = length
    BY <1>1, UnsignedNumber
  <2>2. Copied(n, 0, length) =
           LET rest == Inodes[n].length - 0
               cuts == {i \in 1 .. Unsigned(length) - 1 :
                           (0 + i) % blockSize = 0 /\ i > rest}
           IN IF cuts = {} THEN Unsigned(length) ELSE Min(cuts)
    BY <2>1 DEF Copied
  <2> QED
    BY <2>1, <2>2
<1>3. CASE stops = {}
  BY <1>1, <1>2, <1>3
<1>4. CASE stops # {}
  <2>1. stops \in SUBSET Nat
    OBVIOUS
  <2>2. Min(stops) \in stops
    BY <1>4, <2>1, MinIsLeast
  <2>3. Min(stops) \in Nat /\ Min(stops) > Inodes[n].length
    BY <1>1, <2>2
  <2> QED
    BY <1>1, <1>2, <1>4, <2>3
<1> QED
  BY <1>3, <1>4

(* read_file returns what follows in the file, and nothing only at its end.*)
LEMMA ReadsWhatFollows ==
    ASSUME NEW C, FitsTheWidth(C), NEW n \in DOMAIN Inodes,
           NEW position \in 0 .. Inodes[n].length, NEW nbytes \in ReadSizes
    PROVE  LET text == read_file(n, position, nbytes) IN
           /\ text \in Seq(Bytes)
           /\ position + Len(text) =< Inodes[n].length
           /\ \A i \in 1 .. Len(text) : text[i] = Contents(n)[position + i]
           /\ text = << >> => position = Inodes[n].length
<1> DEFINE L == Inodes[n].length
           m == IF position + nbytes >= L THEN L - position ELSE nbytes
<1>1. /\ L \in Nat /\ position \in Nat /\ nbytes \in Nat \ {0} /\ Word \in Nat \ {0}
      /\ 2 * (L + nbytes) < Word
  BY ContentsType, CommandsAssumption, FileSystemAssumption
  DEF CommandsAssumption, FileSystemAssumption, FitsTheWidth
<1>2. Signed(position + nbytes) = position + nbytes
  <2>1. position + nbytes \in 0 .. Word - 1 /\ 2 * (position + nbytes) < Word
    BY <1>1
  <2>2. (position + nbytes) % Word = position + nbytes
    BY <1>1, <2>1
  <2> QED
    BY <1>1, <2>1, <2>2 DEF Signed
<1>3. Clamped(n, position, nbytes) = m
  BY <1>2 DEF Clamped
<1>4. m \in Nat /\ position + m =< L /\ m < Word /\ (m = 0 => position = L)
  BY <1>1
<1>5. Copied(n, position, m) = m
  BY <1>1, <1>4, CopiesWithin
<1>6. read_file(n, position, nbytes) = [i \in 1 .. m |-> ByteAt(n, position + i - 1)]
  BY <1>3, <1>5 DEF read_file, read_data
<1>7. \A i \in 1 .. m : /\ ByteAt(n, position + i - 1) \in Bytes
                        /\ ByteAt(n, position + i - 1) = Contents(n)[position + i]
  <2> SUFFICES ASSUME NEW i \in 1 .. m
               PROVE  /\ ByteAt(n, position + i - 1) \in Bytes
                      /\ ByteAt(n, position + i - 1) = Contents(n)[position + i]
    OBVIOUS
  <2>1. position + i \in 1 .. L /\ position + i - 1 \in Nat
    BY <1>1, <1>4
  <2>2. \A j \in 1 .. L : Contents(n)[j] = ByteAt(n, j - 1)
    BY ContentsType
  <2>3. Contents(n)[position + i] = ByteAt(n, position + i - 1)
    BY <2>1, <2>2
  <2>4. ByteAt(n, position + i - 1) \in Bytes
    BY <2>1 DEF Bytes
  <2> QED
    BY <2>3, <2>4
<1> DEFINE text == read_file(n, position, nbytes)
<1>8. text \in Seq(Bytes) /\ Len(text) = m /\ \A i \in 1 .. m : text[i] = Contents(n)[position + i]
  <2>1. /\ text = [i \in 1 .. m |-> ByteAt(n, position + i - 1)]
        /\ m \in Nat
    BY <1>4, <1>6
  <2>2. \A i \in 1 .. m : ByteAt(n, position + i - 1) \in Bytes
    BY <1>7
  <2> HIDE DEF m, L, text
  <2>3. text \in Seq(Bytes) /\ Len(text) = m
    BY <2>1, <2>2
  <2>4. \A i \in 1 .. m : text[i] = ByteAt(n, position + i - 1)
    BY <2>1
  <2> QED
    BY <1>7, <2>3, <2>4
<1>9. text = << >> => m = 0
  BY <1>8
<1> HIDE DEF text, m, L
<1> QED
  BY <1>4, <1>8, <1>9 DEF text, L

(* execute loads the whole file of an executable. *)
LEMMA LoadsAll ==
    ASSUME NEW C, FitsTheWidth(C), NEW n \in DOMAIN Inodes
    PROVE  LET image == read_data(n, 0, ImageSize) IN
           /\ Len(image) >= Inodes[n].length
           /\ SubSeq(image, 1, Inodes[n].length) = Contents(n)
<1> DEFINE L == Inodes[n].length
           c == Copied(n, 0, ImageSize)
           image == read_data(n, 0, ImageSize)
<1>1. L \in Nat /\ ImageSize \in Nat /\ ImageSize < Word /\ L < ImageSize
  BY ContentsType, CommandsAssumption DEF CommandsAssumption, FitsTheWidth
<1>2. c \in Nat /\ L =< c
  BY <1>1, CopiesAll
<1>3. image = [i \in 1 .. c |-> ByteAt(n, 0 + i - 1)]
  BY DEF read_data
<1>4. \A i \in 1 .. c : ByteAt(n, 0 + i - 1) \in Bytes
  BY <1>2 DEF Bytes
<1> HIDE DEF c, image
<1>5. image \in Seq(Bytes) /\ Len(image) = c
  BY <1>2, <1>3, <1>4
<1>6. \A i \in 1 .. L : image[i] = Contents(n)[i]
  <2> SUFFICES ASSUME NEW i \in 1 .. L PROVE image[i] = Contents(n)[i]
    OBVIOUS
  <2>1. i \in 1 .. c /\ 0 + i - 1 = i - 1
    BY <1>1, <1>2
  <2> QED
    BY <1>3, <2>1, ContentsType
<1>7. SubSeq(image, 1, L) = Contents(n)
  BY <1>1, <1>2, <1>5, <1>6, ContentsType
<1> QED
  BY <1>1, <1>2, <1>5, <1>7 DEF L, image

-----------------------------------------------------------------------------
(* The parsing of a command. *)

(* With one space at most, the first space and the last are the same.      *)
LEMMA OneSpace ==
    ASSUME NEW C, NEW cmd \in Seq(C), Cardinality(Spaces(cmd)) =< 1, Spaces(cmd) # {}
    PROVE  \E i \in 1 .. Len(cmd) : Min(Spaces(cmd)) = i /\ Max(Spaces(cmd)) = i
<1>1. Spaces(cmd) \in SUBSET (1 .. Len(cmd)) /\ Len(cmd) \in Nat
  BY DEF Spaces
<1>2. IsFiniteSet(1 .. Len(cmd))
  BY <1>1, FS_Interval
<1>3. IsFiniteSet(Spaces(cmd))
  BY <1>1, <1>2, FS_Subset
<1>4. Cardinality(Spaces(cmd)) \in Nat
  BY <1>3, FS_CardinalityType
<1>5. Cardinality(Spaces(cmd)) # 0
  BY <1>3, FS_EmptySet
<1>6. Cardinality(Spaces(cmd)) = 1
  BY <1>4, <1>5
<1>7. PICK i : Spaces(cmd) = {i}
  BY <1>3, <1>6, FS_Singleton
<1>8. i \in 1 .. Len(cmd)
  BY <1>1, <1>7
<1>9. Min({i}) = i /\ Max({i}) = i
  BY <1>8 DEF Min, Max
<1> QED
  BY <1>7, <1>8, <1>9

LEMMA Parsed ==
    ASSUME NEW C, NEW cmd \in Seq(C), Cardinality(Spaces(cmd)) =< 1,
           Len(cmd) =< ArgsSize + 1
    PROVE  /\ TypedRest(cmd) \in Seq(C) /\ ArgsOf(cmd) = TypedRest(cmd)
           /\ TypedName(cmd) \in Seq(C) /\ FunctionOf(cmd) \in Seq(C)
           /\ Len(TypedName(cmd)) =< FILENAME_LEN => FunctionOf(cmd) = TypedName(cmd)
<1>1. ArgsSize \in Nat /\ FILENAME_LEN \in Nat
  BY CommandsAssumption, FileSystemAssumption DEF CommandsAssumption, FileSystemAssumption
<1>2. /\ TypedName(cmd) \in Seq(C)
      /\ FunctionOf(cmd) = UpTo(TypedName(cmd), FILENAME_LEN)
  <2>1. CASE Spaces(cmd) = {}
    <3>1. SubSeq(cmd, 1, Len(cmd)) = cmd
      BY WholeSubSeq
    <3> QED
      BY <2>1, <3>1 DEF TypedName, FunctionOf
  <2>2. CASE Spaces(cmd) # {}
    <3>1. PICK i \in 1 .. Len(cmd) : Min(Spaces(cmd)) = i
      BY <2>2, OneSpace
    <3>2. TypedName(cmd) = SubSeq(cmd, 1, i - 1)
      BY <2>2, <3>1 DEF TypedName
    <3>3. SubSeq(cmd, 1, i - 1) \in Seq(C)
      OBVIOUS
    <3> QED
      BY <2>2, <3>1, <3>2, <3>3 DEF FunctionOf
  <2> QED
    BY <2>1, <2>2
<1>3. \A s \in Seq(C), n \in Nat : UpTo(s, n) \in Seq(C) /\ (Len(s) =< n => UpTo(s, n) = s)
  <2> SUFFICES ASSUME NEW s \in Seq(C), NEW n \in Nat
               PROVE  UpTo(s, n) \in Seq(C) /\ (Len(s) =< n => UpTo(s, n) = s)
    OBVIOUS
  <2>1. SubSeq(s, 1, Len(s)) = s
    BY WholeSubSeq
  <2>2. CASE Len(s) =< n
    <3>1. UpTo(s, n) = SubSeq(s, 1, Len(s))
      BY <2>2 DEF UpTo
    <3> QED
      BY <2>1, <3>1
  <2>3. CASE ~(Len(s) =< n)
    BY <2>3 DEF UpTo
  <2> QED
    BY <2>2, <2>3
<1>4. TypedRest(cmd) \in Seq(C) /\ ArgsOf(cmd) = TypedRest(cmd)
  <2>1. CASE Spaces(cmd) = {}
    BY <2>1 DEF TypedRest, ArgsOf
  <2>2. CASE Spaces(cmd) # {}
    <3>1. PICK i \in 1 .. Len(cmd) : Min(Spaces(cmd)) = i /\ Max(Spaces(cmd)) = i
      BY <2>2, OneSpace
    <3>2. TypedRest(cmd) = From(cmd, i + 1) /\ ArgsOf(cmd) = UpTo(From(cmd, i + 1), ArgsSize)
      BY <2>2, <3>1 DEF TypedRest, ArgsOf
    <3>3. From(cmd, i + 1) \in Seq(C) /\ Len(From(cmd, i + 1)) =< ArgsSize
      BY <1>1 DEF From
    <3> QED
      BY <1>1, <1>3, <3>2, <3>3
  <2> QED
    BY <2>1, <2>2
<1> QED
  BY <1>1, <1>2, <1>3, <1>4

-----------------------------------------------------------------------------
(* The inductive invariant.  What is printed depends on how far the loop   *)
(* has got, on the file and the argument that led to it, and those on args *)
(* between execute and getargs.                                            *)

Fields == {"at", "typed", "image", "arg", "file", "position", "out", "rval"}

(* What the program of r has to print in the end. *)
Whole(r) == TextOf(r.file)

(* A run is a record, of a command that was parsed. *)
RunTyped(C, r) ==
    /\ DOMAIN r = Fields /\ r = [f \in Fields |-> r[f]]
    /\ r.at \in {"shell", "started", "opening", "reading", "ended"}
    /\ r.typed \in Seq(C) /\ Cardinality(Spaces(r.typed)) =< 1
    /\ Len(r.typed) =< ArgsSize + 1

(* execute found the program that was typed, if there is one. *)
RunImage(r) ==
    /\ r.image # NoEntry =>
           /\ r.image \in DOMAIN Entries /\ Executable(r.image)
           /\ Len(TypedName(r.typed)) =< FILENAME_LEN => Name(r.image) = TypedName(r.typed)
    /\ r.at = "shell" => r.image = NoEntry /\ r.file = NoEntry
    /\ r.at = "shell" /\ r.typed # << >> /\ Len(TypedName(r.typed)) < FILENAME_LEN =>
           ~\E d \in DOMAIN Entries : Name(d) = TypedName(r.typed) /\ Executable(d)

(* Before open nothing is printed, and after it the file is the right one. *)
RunFile(r) ==
    /\ r.at \in {"started", "opening"} =>
           r.image # NoEntry /\ r.file = NoEntry /\ r.out = << >> /\ r.position = 0
    /\ r.at = "opening" => Name(r.image) = CAT /\ r.arg = TypedRest(r.typed)
    /\ r.at = "reading" => r.file # NoEntry
    /\ r.file # NoEntry =>
           /\ r.file \in DOMAIN Entries
           /\ Name(r.file) = IF Name(r.image) = LS THEN DOT ELSE TypedRest(r.typed)

(* The loop has printed what comes before its position. *)
RunPrinted(r) ==
    r.file # NoEntry =>
        \E k \in 0 .. Len(Whole(r)) :
            /\ r.out = SubSeq(Whole(r), 1, k)
            /\ r.at = "reading" => r.position = k
            /\ r.at = "ended" => k = Len(Whole(r))

RunInv(C, r) == RunTyped(C, r) /\ RunImage(r) /\ RunFile(r) /\ RunPrinted(r)

CommandInv(C) ==
    /\ DOMAIN run = Terminals /\ run = [t \in Terminals |-> run[t]]
    /\ \A t \in Terminals : RunInv(C, run[t])
    /\ \A t \in Terminals : Waiting(t) => args = TypedRest(run[t].typed)

LEMMA WholeType ==
    ASSUME NEW C, GoodDirectory(C), NEW r, r.file \in DOMAIN Entries
    PROVE  /\ Whole(r) \in Seq(Bytes \cup Seq(C)) /\ Len(Whole(r)) \in Nat
           /\ IsDirectory(r.file) => /\ Len(Whole(r)) = Len(Entries)
                                     /\ \A i \in 1 .. Len(Entries) : Whole(r)[i] = Name(i)
<1>1. CASE IsDirectory(r.file)
  <2>0. ~IsClock(r.file)
    BY <1>1 DEF IsDirectory, IsClock
  <2>1. Whole(r) = [d \in 1 .. Len(Entries) |-> Name(d)]
    BY <1>1, <2>0 DEF Whole, TextOf, Listing
  <2>2. Len(Entries) \in Nat /\ \A d \in 1 .. Len(Entries) : Name(d) \in Bytes \cup Seq(C)
    BY GoodEntries DEF Name
  <2>3. Whole(r) \in Seq(Bytes \cup Seq(C)) /\ Len(Whole(r)) = Len(Entries)
    BY <2>1, <2>2
  <2> QED
    BY <2>1, <2>2, <2>3
<1>2. CASE ~IsDirectory(r.file) /\ ~IsClock(r.file)
  <2>1. Entries[r.file].inode \in DOMAIN Inodes
    BY GoodEntries
  <2>2. Whole(r) = Contents(Entries[r.file].inode)
    BY <1>2 DEF Whole, TextOf
  <2>3. Whole(r) \in Seq(Bytes)
    BY <2>1, <2>2, ContentsType
  <2> QED
    BY <1>2, <2>3
<1>3. CASE IsClock(r.file)
  <2>1. Whole(r) = << >> /\ ~IsDirectory(r.file)
    BY <1>3 DEF Whole, TextOf, IsClock, IsDirectory
  <2> QED
    BY <2>1
<1> QED
  BY <1>1, <1>2, <1>3

(* The shell that waits for a command. *)
LEMMA ShellRun ==
    ASSUME NEW C, NEW r, DOMAIN r = Fields, r = [f \in Fields |-> r[f]],
           r.at = "shell", r.typed = << >>, r.image = NoEntry, r.file = NoEntry
    PROVE  RunInv(C, r)
<1>1. Cardinality(Spaces(r.typed)) = 0
  <2>1. Spaces(r.typed) = {}
    BY DEF Spaces
  <2> QED
    BY <2>1, FS_EmptySet
<1>2. RunTyped(C, r)
  <2>1. << >> \in Seq(C) /\ Len(<< >>) = 0 /\ ArgsSize \in Nat
    BY CommandsAssumption DEF CommandsAssumption
  <2>2. r.typed \in Seq(C)
    BY <2>1
  <2>3. Len(r.typed) =< ArgsSize + 1
    BY <2>1
  <2> QED
    BY <1>1, <2>2, <2>3 DEF RunTyped
<1> QED
  BY <1>2 DEF RunInv, RunImage, RunFile, RunPrinted

(* A program's step changes its own run alone. *)
LEMMA OneRunChanges ==
    ASSUME NEW C, CommandInv(C), NEW t \in Terminals, NEW r, RunInv(C, r),
           run' = [run EXCEPT ![t] = r], args' = args, r.at # "started"
    PROVE  CommandInv(C)'
<1>1. run'[t] = r /\ \A u \in Terminals \ {t} : run'[u] = run[u]
  BY DEF CommandInv
<1>2. DOMAIN run' = Terminals /\ run' = [u \in Terminals |-> run'[u]]
  BY DEF CommandInv
<1>3. \A u \in Terminals : RunInv(C, run'[u])
  BY <1>1 DEF CommandInv
<1>4. \A u \in Terminals : run'[u].at = "started" => args' = TypedRest(run'[u].typed)
  BY <1>1 DEF CommandInv, Waiting
<1> QED
  BY <1>2, <1>3, <1>4 DEF CommandInv, Waiting, RunInv, RunTyped, RunImage, RunFile, RunPrinted

LEMMA InitialRuns ==
    ASSUME NEW C, Calm(C), Init
    PROVE  CommandInv(C)
<1>1. RunInv(C, Shell)
  <2>1. DOMAIN Shell = Fields /\ Shell = [f \in Fields |-> Shell[f]]
    BY DEF Shell, Fields
  <2>2. Shell.at = "shell" /\ Shell.typed = << >> /\ Shell.image = NoEntry /\ Shell.file = NoEntry
    BY DEF Shell
  <2> QED
    BY <2>1, <2>2, ShellRun
<1>2. \A t \in Terminals : run[t] = Shell
  BY DEF Init
<1>3. Shell.at # "started"
  BY DEF Shell
<1> QED
  BY <1>1, <1>2, <1>3 DEF CommandInv, Init, Waiting

(* execute: the shells wait for each other, so args is this program's. *)
LEMMA ExecuteKeeps ==
    ASSUME NEW C, Calm(C), CommandInv(C), NEW t \in Terminals, NEW cmd \in Commands[t],
           NEW terminated \in BOOLEAN, Execute(t, cmd, terminated)
    PROVE  CommandInv(C)'
<1> DEFINE image == Found(FunctionOf(cmd), terminated)
           r == run'[t]
<1>1. /\ cmd \in Seq(C) /\ Len(cmd) =< ArgsSize + 1
      /\ Cardinality(Spaces(cmd)) =< 1
      /\ \A u \in Terminals : ~Waiting(u)
  BY DEF Calm, FitsTheWidth, Execute
<1>2. /\ ArgsOf(cmd) = TypedRest(cmd) /\ FunctionOf(cmd) \in Seq(C)
      /\ Len(TypedName(cmd)) =< FILENAME_LEN => FunctionOf(cmd) = TypedName(cmd)
      /\ TypedName(cmd) \in Seq(C)
  BY <1>1, Parsed
<1>3. FILENAME_LEN \in Nat
  BY FileSystemAssumption DEF FileSystemAssumption
<1>4. image = NoEntry \/ (image \in DOMAIN Entries /\ Name(image) = FunctionOf(cmd))
  BY <1>2, FindsTheName DEF Found, Calm
<1>5. \A u \in Terminals \ {t} : run'[u] = run[u]
  BY DEF Execute, CommandInv
<1>6. DOMAIN run' = Terminals /\ run' = [u \in Terminals |-> run'[u]]
  BY DEF Execute, CommandInv
<1>7. args' = TypedRest(cmd)
  BY <1>2 DEF Execute
<1>8. RunInv(C, r) /\ (r.at = "started" => r.typed = cmd)
  <2>1. CASE Executable(image)
    <3>1. r = [Shell EXCEPT !.at = "started", !.typed = cmd, !.image = image]
      BY <2>1 DEF Execute, CommandInv
    <3>2. DOMAIN r = Fields /\ r = [f \in Fields |-> r[f]]
      BY <3>1 DEF Shell, Fields
    <3>3. /\ r.at = "started" /\ r.typed = cmd /\ r.image = image
          /\ r.file = NoEntry /\ r.out = << >> /\ r.position = 0
      BY <3>1 DEF Shell
    <3>4. image # NoEntry
      BY <2>1 DEF Executable
    <3>5. RunTyped(C, r)
      BY <1>1, <3>2, <3>3 DEF RunTyped
    <3>6. RunImage(r)
      BY <1>2, <1>4, <2>1, <3>3, <3>4 DEF RunImage
    <3>7. RunFile(r) /\ RunPrinted(r)
      BY <3>3, <3>4 DEF RunFile, RunPrinted
    <3> QED
      BY <3>3, <3>5, <3>6, <3>7 DEF RunInv
  <2>2. CASE ~Executable(image)
    <3>1. r = [Shell EXCEPT !.typed = cmd, !.rval = Failure]
      BY <2>2 DEF Execute, CommandInv
    <3>2. DOMAIN r = Fields /\ r = [f \in Fields |-> r[f]]
      BY <3>1 DEF Shell, Fields
    <3>3. /\ r.at = "shell" /\ r.typed = cmd /\ r.image = NoEntry
          /\ r.file = NoEntry
      BY <3>1 DEF Shell
    <3>4. RunTyped(C, r)
      BY <1>1, <3>2, <3>3 DEF RunTyped
    <3>5. ASSUME Len(TypedName(cmd)) < FILENAME_LEN, NEW d \in DOMAIN Entries,
                 Name(d) = TypedName(cmd), Executable(d)
          PROVE  FALSE
      <4>1. FunctionOf(cmd) = TypedName(cmd) /\ Len(FunctionOf(cmd)) # FILENAME_LEN
        BY <1>2, <1>3, <3>5
      <4>2. image = read_dentry_by_name(FunctionOf(cmd))
        BY <4>1 DEF Found
      <4>3. image \in DOMAIN Entries /\ Name(image) = Name(d)
        BY <1>2, <3>5, <4>1, <4>2, FindsTheName DEF Calm
      <4>4. image = d
        BY <3>5, <4>3 DEF Calm, GoodDirectory
      <4> QED
        BY <2>2, <3>5, <4>4
    <3>6. RunImage(r)
      BY <3>3, <3>5 DEF RunImage
    <3>7. RunFile(r) /\ RunPrinted(r)
      BY <3>3 DEF RunFile, RunPrinted
    <3> QED
      BY <3>3, <3>4, <3>6, <3>7 DEF RunInv
  <2> QED
    BY <2>1, <2>2
<1> HIDE DEF r
<1>9. \A u \in Terminals : RunInv(C, run'[u])
  BY <1>5, <1>8 DEF CommandInv, r
<1>10. \A u \in Terminals : run'[u].at = "started" => args' = TypedRest(run'[u].typed)
  BY <1>1, <1>5, <1>7, <1>8 DEF r, Waiting
<1> QED
  BY <1>6, <1>9, <1>10
  DEF CommandInv, Waiting, RunInv, RunTyped, RunImage, RunFile, RunPrinted

(* getargs: args is still the program's own. *)
LEMMA GetArgsKeeps ==
    ASSUME NEW C, Calm(C), CommandInv(C), NEW t \in Terminals, GetArgs(t)
    PROVE  CommandInv(C)'
<1> DEFINE q == run[t]
<1>1. RunInv(C, q) /\ q.at = "started" /\ args = TypedRest(q.typed) /\ Name(q.image) = CAT
  BY DEF GetArgs, CommandInv, Waiting
<1>2. CASE args = << >>
  <2> DEFINE r == [q EXCEPT !.at = "ended", !.rval = 3]
  <2>1. run' = [run EXCEPT ![t] = r] /\ args' = args
    BY <1>2 DEF GetArgs
  <2>2. DOMAIN r = Fields /\ r = [f \in Fields |-> r[f]]
    BY <1>1 DEF RunInv, RunTyped, Fields
  <2>3. r.at = "ended" /\ r.typed = q.typed /\ r.image = q.image /\ r.file = q.file
    BY <1>1 DEF RunInv, RunTyped, Fields
  <2>4. r.file = NoEntry
    BY <1>1, <2>3 DEF RunInv, RunFile
  <2> HIDE DEF q, r
  <2>5. RunTyped(C, r)
    BY <1>1, <2>2, <2>3 DEF RunInv, RunTyped
  <2>6. RunImage(r)
    BY <1>1, <2>3 DEF RunInv, RunImage
  <2>7. RunFile(r) /\ RunPrinted(r)
    BY <2>3, <2>4 DEF RunFile, RunPrinted
  <2> QED
    BY <2>1, <2>3, <2>5, <2>6, <2>7, OneRunChanges DEF RunInv
<1>3. CASE args # << >>
  <2> DEFINE r == [q EXCEPT !.at = "opening", !.arg = args]
  <2>1. run' = [run EXCEPT ![t] = r] /\ args' = args
    BY <1>3 DEF GetArgs
  <2>2. DOMAIN r = Fields /\ r = [f \in Fields |-> r[f]]
    BY <1>1 DEF RunInv, RunTyped, Fields
  <2>3. /\ r.at = "opening" /\ r.typed = q.typed /\ r.image = q.image /\ r.file = q.file
        /\ r.arg = args /\ r.out = q.out /\ r.position = q.position
    BY <1>1 DEF RunInv, RunTyped, Fields
  <2> HIDE DEF q, r
  <2>5. RunTyped(C, r)
    BY <1>1, <2>2, <2>3 DEF RunInv, RunTyped
  <2>6. RunImage(r)
    BY <1>1, <2>3 DEF RunInv, RunImage
  <2>7. RunFile(r) /\ RunPrinted(r)
    BY <1>1, <2>3 DEF RunInv, RunFile, RunPrinted
  <2> QED
    BY <2>1, <2>3, <2>5, <2>6, <2>7, OneRunChanges DEF RunInv
<1> QED
  BY <1>2, <1>3

LEMMA OpenKeeps ==
    ASSUME NEW C, Calm(C), CommandInv(C), NEW t \in Terminals, Open(t)
    PROVE  CommandInv(C)'
<1> DEFINE q == run[t]
           wanted == IF Name(q.image) = LS THEN DOT ELSE q.arg
           file == read_dentry_by_name(wanted)
<1>1. RunInv(C, q) /\ q.at \in {"started", "opening"}
      /\ (q.at = "started" => Name(q.image) = LS)
  BY DEF Open, CommandInv, Waiting
<1>2. wanted = IF Name(q.image) = LS THEN DOT ELSE TypedRest(q.typed)
  <2>1. q.at = "opening" => Name(q.image) = CAT /\ q.arg = TypedRest(q.typed)
    BY <1>1 DEF RunInv, RunFile
  <2> QED
    BY <1>1, <2>1
<1>3. wanted \in Seq(C)
  <2>1. TypedRest(q.typed) \in Seq(C)
    BY <1>1, Parsed DEF RunInv, RunTyped
  <2> QED
    BY <1>2, <2>1 DEF Calm, GoodDirectory
<1>4. file = NoEntry \/ (file \in DOMAIN Entries /\ Name(file) = wanted)
  BY <1>3, FindsTheName DEF Calm
<1>5. q.out = << >> /\ q.position = 0 /\ q.file = NoEntry
  BY <1>1 DEF RunInv, RunFile
<1>6. CASE file = NoEntry
  <2> DEFINE r == [q EXCEPT !.at = "ended", !.rval = 2]
  <2>1. run' = [run EXCEPT ![t] = r] /\ args' = args
    BY <1>6 DEF Open
  <2>2. DOMAIN r = Fields /\ r = [f \in Fields |-> r[f]]
    BY <1>1 DEF RunInv, RunTyped, Fields
  <2>3. r.at = "ended" /\ r.typed = q.typed /\ r.image = q.image /\ r.file = q.file
    BY <1>1 DEF RunInv, RunTyped, Fields
  <2> HIDE DEF q, r
  <2>5. RunTyped(C, r)
    BY <1>1, <2>2, <2>3 DEF RunInv, RunTyped
  <2>6. RunImage(r)
    BY <1>1, <2>3 DEF RunInv, RunImage
  <2>7. RunFile(r) /\ RunPrinted(r)
    BY <1>5, <2>3 DEF RunFile, RunPrinted
  <2> QED
    BY <2>1, <2>3, <2>5, <2>6, <2>7, OneRunChanges DEF RunInv
<1>7. CASE file # NoEntry
  <2> DEFINE r == [q EXCEPT !.at = "reading", !.file = file]
  <2>1. run' = [run EXCEPT ![t] = r] /\ args' = args
    BY <1>7 DEF Open
  <2>2. DOMAIN r = Fields /\ r = [f \in Fields |-> r[f]]
    BY <1>1 DEF RunInv, RunTyped, Fields
  <2>3. /\ r.at = "reading" /\ r.typed = q.typed /\ r.image = q.image /\ r.file = file
        /\ r.out = << >> /\ r.position = 0
    BY <1>1, <1>5 DEF RunInv, RunTyped, Fields
  <2> HIDE DEF q, r, wanted, file
  <2>5. RunTyped(C, r)
    BY <1>1, <2>2, <2>3 DEF RunInv, RunTyped
  <2>6. RunImage(r)
    BY <1>1, <2>3 DEF RunInv, RunImage
  <2>7. RunFile(r)
    BY <1>2, <1>4, <1>7, <2>3 DEF RunFile
  <2>8. RunPrinted(r)
    <3>1. Whole(r) \in Seq(Bytes \cup Seq(C)) /\ Len(Whole(r)) \in Nat
      BY <1>4, <1>7, <2>3, WholeType DEF Calm
    <3>2. SubSeq(Whole(r), 1, 0) = << >> /\ 0 \in 0 .. Len(Whole(r))
      BY <3>1
    <3> QED
      BY <2>3, <3>2 DEF RunPrinted
  <2> QED
    BY <2>1, <2>3, <2>5, <2>6, <2>7, <2>8, OneRunChanges DEF RunInv
<1> QED
  BY <1>6, <1>7

(* What both loops do: the run goes on with more of the whole printed.     *)
LEMMA GoesOn ==
    ASSUME NEW C, Calm(C), NEW q, RunInv(C, q), q.at = "reading", NEW r,
           DOMAIN r = Fields, r = [f \in Fields |-> r[f]],
           r.at \in {"reading", "ended"}, r.typed = q.typed, r.image = q.image,
           r.file = q.file, NEW k \in 0 .. Len(Whole(q)),
           r.out = SubSeq(Whole(q), 1, k), r.at = "reading" => r.position = k,
           r.at = "ended" => k = Len(Whole(q))
    PROVE  RunInv(C, r)
<1>1. RunTyped(C, r)
  BY DEF RunInv, RunTyped
<1>2. RunImage(r)
  BY DEF RunInv, RunImage
<1>3. RunFile(r)
  BY DEF RunInv, RunFile
<1>4. Whole(r) = Whole(q)
  BY DEF Whole
<1>5. RunPrinted(r)
  BY <1>4 DEF RunPrinted
<1> QED
  BY <1>1, <1>2, <1>3, <1>5 DEF RunInv

(* A turn of cat's loop: read_file returns what follows. *)
LEMMA CopyFileKeeps ==
    ASSUME NEW C, Calm(C), CommandInv(C), NEW t \in Terminals, NEW nbytes \in ReadSizes,
           CopyFile(t, nbytes)
    PROVE  CommandInv(C)'
<1> DEFINE q == run[t]
           n == Entries[q.file].inode
           text == read_file(n, q.position, nbytes)
           W == Whole(q)
<1>1. /\ RunInv(C, q) /\ q.at = "reading" /\ ~IsDirectory(q.file) /\ ~IsClock(q.file)
      /\ q.file \in DOMAIN Entries /\ q.file # NoEntry
  BY DEF CopyFile, CommandInv, RunInv, RunFile
<1>2. n \in DOMAIN Inodes /\ W = Contents(n)
  BY <1>1, GoodEntries DEF Calm, Whole, TextOf
<1>3. W \in Seq(Bytes) /\ Len(W) = Inodes[n].length /\ Len(W) \in Nat
  BY <1>2, ContentsType
<1>4. q.position \in 0 .. Len(W) /\ q.out = SubSeq(W, 1, q.position)
  BY <1>1 DEF RunInv, RunPrinted
<1>5. /\ text \in Seq(Bytes) /\ q.position + Len(text) =< Len(W)
      /\ \A i \in 1 .. Len(text) : text[i] = W[q.position + i]
      /\ text = << >> => q.position = Len(W)
  <2>1. q.position \in 0 .. Inodes[n].length
    BY <1>3, <1>4
  <2>2. /\ text \in Seq(Bytes) /\ q.position + Len(text) =< Inodes[n].length
        /\ \A i \in 1 .. Len(text) : text[i] = Contents(n)[q.position + i]
        /\ text = << >> => q.position = Inodes[n].length
    <3> HIDE DEF n, q, W
    <3> QED
      BY <1>2, <2>1, ReadsWhatFollows DEF Calm
  <2> HIDE DEF n, q, W, text
  <2> QED
    BY <1>2, <1>3, <2>2
<1>6. CASE text = << >>
  <2> DEFINE r == [q EXCEPT !.at = "ended"]
  <2>1. run' = [run EXCEPT ![t] = r] /\ args' = args
    BY <1>6 DEF CopyFile, Inode
  <2>2. DOMAIN r = Fields /\ r = [f \in Fields |-> r[f]]
    BY <1>1 DEF RunInv, RunTyped, Fields
  <2>3. /\ r.at = "ended" /\ r.typed = q.typed /\ r.image = q.image /\ r.file = q.file
        /\ r.out = q.out
    BY <1>1 DEF RunInv, RunTyped, Fields
  <2> HIDE DEF q, r, n, text, W
  <2>4. RunInv(C, r)
    BY <1>1, <1>4, <1>5, <1>6, <2>2, <2>3, GoesOn DEF W
  <2> QED
    BY <2>1, <2>3, <2>4, OneRunChanges DEF q
<1>7. CASE text # << >>
  <2> DEFINE r == [q EXCEPT !.out = q.out \o text, !.position = q.position + Len(text)]
  <2>1. run' = [run EXCEPT ![t] = r] /\ args' = args
    BY <1>7 DEF CopyFile, Inode
  <2>2. DOMAIN r = Fields /\ r = [f \in Fields |-> r[f]]
    BY <1>1 DEF RunInv, RunTyped, Fields
  <2>3. /\ r.at = "reading" /\ r.typed = q.typed /\ r.image = q.image /\ r.file = q.file
        /\ r.out = q.out \o text /\ r.position = q.position + Len(text)
    BY <1>1 DEF RunInv, RunTyped, Fields
  <2> HIDE DEF q, r, n, text, W
  <2>4. Len(text) \in Nat
    BY <1>5
  <2>5. r.out = SubSeq(W, 1, q.position + Len(text))
    BY <1>3, <1>4, <1>5, <2>3, <2>4, Continued
  <2>6. q.position + Len(text) \in 0 .. Len(W)
    BY <1>3, <1>4, <1>5, <2>4
  <2>7. RunInv(C, r)
    BY <1>1, <2>2, <2>3, <2>5, <2>6, GoesOn DEF W
  <2> QED
    BY <2>1, <2>3, <2>7, OneRunChanges DEF q
<1> QED
  BY <1>6, <1>7

(* A turn of ls' loop: read_directory returns the next name. *)
LEMMA CopyNamesKeeps ==
    ASSUME NEW C, Calm(C), CommandInv(C), NEW t \in Terminals, CopyNames(t)
    PROVE  CommandInv(C)'
<1> DEFINE q == run[t]
           name == read_directory(q.position)
           W == Whole(q)
           X == Bytes \cup Seq(C)
           r == [q EXCEPT !.position = NextPosition(q.position),
                          !.at = IF name = << >> THEN "ended" ELSE q.at,
                          !.out = IF name = << >> THEN q.out ELSE Append(q.out, name)]
<1>1. /\ RunInv(C, q) /\ q.at = "reading" /\ IsDirectory(q.file)
      /\ q.file \in DOMAIN Entries /\ q.file # NoEntry
  BY DEF CopyNames, CommandInv, RunInv, RunFile
<1>2. /\ W \in Seq(X) /\ Len(W) = Len(Entries) /\ Len(W) \in Nat
      /\ \A i \in 1 .. Len(Entries) : W[i] = Name(i)
  BY <1>1, WholeType DEF Calm
<1>3. q.position \in 0 .. Len(W) /\ q.out = SubSeq(W, 1, q.position)
  BY <1>1 DEF RunInv, RunPrinted
<1>4. run' = [run EXCEPT ![t] = r] /\ args' = args
  BY DEF CopyNames
<1>5. DOMAIN r = Fields /\ r = [f \in Fields |-> r[f]]
  BY <1>1 DEF RunInv, RunTyped, Fields
<1>6. /\ r.typed = q.typed /\ r.image = q.image /\ r.file = q.file
      /\ r.at = (IF name = << >> THEN "ended" ELSE "reading")
      /\ r.out = (IF name = << >> THEN q.out ELSE Append(q.out, name))
      /\ r.position = NextPosition(q.position)
  BY <1>1 DEF RunInv, RunTyped, Fields
<1>7. CASE q.position >= Len(Entries)
  <2>1. name = << >> /\ q.position = Len(W)
    BY <1>2, <1>3, <1>7 DEF read_directory
  <2> HIDE DEF q, r, name, W
  <2>2. RunInv(C, r)
    BY <1>1, <1>3, <1>5, <1>6, <2>1, GoesOn DEF W
  <2> QED
    BY <1>4, <1>6, <2>2, OneRunChanges DEF q
<1>8. CASE ~(q.position >= Len(Entries))
  <2>1. q.position + 1 \in 1 .. Len(Entries) /\ q.position \in Nat
    BY <1>2, <1>3, <1>8
  <2>2. name = Name(q.position + 1) /\ NextPosition(q.position) = q.position + 1
    BY <1>8 DEF read_directory, NextPosition, Name
  <2>3. name # << >> /\ name \in X
    <3>1. q.position + 1 \in DOMAIN Entries
      BY <2>1, GoodEntries DEF Calm
    <3>2. Name(q.position + 1) # << >>
      BY <3>1 DEF Calm, GoodDirectory
    <3>3. Name(q.position + 1) \in Seq(C)
      BY <3>1, GoodEntries DEF Calm, Name
    <3> QED
      BY <2>2, <3>2, <3>3
  <2>4. name = W[q.position + 1]
    BY <1>2, <2>1, <2>2
  <2> HIDE DEF q, r, name, W, X
  <2>5. Append(q.out, name) = SubSeq(W, 1, q.position + 1)
    BY <1>2, <1>3, <2>1, <2>3, <2>4
  <2>6. RunInv(C, r)
    <3>1. r.at = "reading" /\ r.position = q.position + 1
      BY <1>6, <2>2, <2>3
    <3>2. q.position + 1 \in 0 .. Len(W)
      BY <1>2, <2>1
    <3>3. r.out = SubSeq(W, 1, q.position + 1)
      BY <1>6, <2>3, <2>5
    <3> QED
      BY <1>1, <1>5, <1>6, <3>1, <3>2, <3>3, GoesOn DEF W
  <2> QED
    BY <1>4, <1>6, <2>3, <2>6, OneRunChanges DEF q
<1> QED
  BY <1>7, <1>8

(* The read of the clock ends the loop, and nothing was to be printed. *)
LEMMA ReadClockKeeps ==
    ASSUME NEW C, Calm(C), CommandInv(C), NEW t \in Terminals, ReadClock(t)
    PROVE  CommandInv(C)'
<1> DEFINE q == run[t]
           W == Whole(q)
           r == [q EXCEPT !.at = "ended"]
<1>1. /\ RunInv(C, q) /\ q.at = "reading" /\ IsClock(q.file)
      /\ q.file \in DOMAIN Entries /\ q.file # NoEntry
  BY DEF ReadClock, CommandInv, RunInv, RunFile
<1>2. W = << >> /\ Len(W) = 0
  BY <1>1 DEF Whole, TextOf
<1>3. PICK k \in 0 .. Len(W) : q.out = SubSeq(W, 1, k)
  BY <1>1 DEF RunInv, RunPrinted
<1>4. run' = [run EXCEPT ![t] = r] /\ args' = args
  BY DEF ReadClock, CommandInv
<1>5. DOMAIN r = Fields /\ r = [f \in Fields |-> r[f]]
  BY <1>1 DEF RunInv, RunTyped, Fields
<1>6. /\ r.at = "ended" /\ r.typed = q.typed /\ r.image = q.image /\ r.file = q.file
      /\ r.out = q.out
  BY <1>1 DEF RunInv, RunTyped, Fields
<1> HIDE DEF q, r, W
<1>7. k = Len(W)
  BY <1>2, <1>3
<1>8. RunInv(C, r)
  BY <1>1, <1>3, <1>5, <1>6, <1>7, GoesOn DEF W
<1> QED
  BY <1>4, <1>6, <1>8, OneRunChanges DEF q

LEMMA HaltKeeps ==
    ASSUME NEW C, CommandInv(C), NEW t \in Terminals, Halt(t)
    PROVE  CommandInv(C)'
<1> DEFINE r == [Shell EXCEPT !.rval = run[t].rval]
<1>1. run' = [run EXCEPT ![t] = r] /\ args' = args
  BY DEF Halt
<1>2. DOMAIN r = Fields /\ r = [f \in Fields |-> r[f]]
  BY DEF Shell, Fields
<1>3. r.at = "shell" /\ r.typed = << >> /\ r.image = NoEntry /\ r.file = NoEntry
  BY DEF Shell
<1> HIDE DEF r
<1>4. RunInv(C, r)
  BY <1>2, <1>3, ShellRun
<1> QED
  BY <1>1, <1>3, <1>4, OneRunChanges

(* Every run is where its command has led it (execute, getargs, open, the  *)
(* loops of cat and ls, halt).                                             *)
THEOREM CommandInvariance ==
    ASSUME NEW C, Calm(C)
    PROVE  Spec => []CommandInv(C)
<1>1. Init => CommandInv(C)
  BY InitialRuns
<1>2. CommandInv(C) /\ [Next]_vars => CommandInv(C)'
  <2> SUFFICES ASSUME CommandInv(C), [Next]_vars PROVE CommandInv(C)'
    OBVIOUS
  <2>1. ASSUME NEW t \in Terminals, NEW cmd \in Commands[t], NEW terminated \in BOOLEAN,
               Execute(t, cmd, terminated)
        PROVE  CommandInv(C)'
    BY <2>1, ExecuteKeeps
  <2>2. ASSUME NEW t \in Terminals, Program(t)
        PROVE  CommandInv(C)'
    BY <2>2, GetArgsKeeps, OpenKeeps, CopyFileKeeps, CopyNamesKeeps, ReadClockKeeps,
       HaltKeeps DEF Program
  <2>3. CASE UNCHANGED vars
    BY <2>3 DEF vars, CommandInv, Waiting, RunInv, RunTyped, RunImage, RunFile, RunPrinted
  <2> QED
    BY <2>1, <2>2, <2>3 DEF Next
<1> QED
  BY <1>1, <1>2, PTL DEF Spec

(* The program that runs is the executable with the name that was typed,   *)
(* and an executable that is typed and whose name fits runs (execute,      *)
(* read_dentry_by_name).                                                   *)
THEOREM TypedProgramsRun ==
    ASSUME NEW C, Calm(C)
    PROVE  Spec => []RunsWhatWasTyped
<1>1. CommandInv(C) => RunsWhatWasTyped
  BY DEF CommandInv, RunInv, RunImage, RunsWhatWasTyped
<1> QED
  BY <1>1, CommandInvariance, PTL

(* cat and ls print what was asked for, all of it in the end, for files    *)
(* that end anywhere in a block and whatever they read at a time, and      *)
(* nothing for the clock (read_file, read_data, read_directory, rtc_read,  *)
(* getargs).                                                               *)
THEOREM WholeFilesArePrinted ==
    ASSUME NEW C, Calm(C)
    PROVE  Spec => []PrintsWhatWasTyped
<1>1. CommandInv(C) => PrintsWhatWasTyped
  <2> SUFFICES ASSUME CommandInv(C), NEW t \in Terminals, run[t].file # NoEntry
               PROVE  LET r == run[t]
                          whole == Whole(r)
                      IN /\ Name(r.file) = IF Name(r.image) = LS THEN DOT
                                           ELSE TypedRest(r.typed)
                         /\ Len(r.out) <= Len(whole) /\ r.out = SubSeq(whole, 1, Len(r.out))
                         /\ r.at = "ended" => r.out = whole
    BY DEF PrintsWhatWasTyped, Whole
  <2> DEFINE r == run[t]
             W == Whole(r)
  <2>1. RunInv(C, r)
    BY DEF CommandInv
  <2>2. /\ r.file \in DOMAIN Entries
        /\ Name(r.file) = IF Name(r.image) = LS THEN DOT ELSE TypedRest(r.typed)
    BY <2>1 DEF RunInv, RunFile
  <2>3. W \in Seq(Bytes \cup Seq(C)) /\ Len(W) \in Nat
    BY <2>2, WholeType DEF Calm
  <2>4. PICK k \in 0 .. Len(W) : r.out = SubSeq(W, 1, k) /\ (r.at = "ended" => k = Len(W))
    BY <2>1 DEF RunInv, RunPrinted
  <2> HIDE DEF r, W
  <2>5. Len(r.out) = k
    BY <2>3, <2>4
  <2>6. r.at = "ended" => r.out = W
    BY <2>3, <2>4, WholeSubSeq
  <2> QED
    BY <2>2, <2>3, <2>4, <2>5, <2>6 DEF r, W
<1> QED
  BY <1>1, CommandInvariance, PTL

(* execute loads all of the file of the program that it starts (read_data  *)
(* with a request for 4 MB).                                               *)
THEOREM WholeImagesAreLoaded ==
    ASSUME NEW C, Calm(C)
    PROVE  Spec => []LoadsWholeImage
<1>1. CommandInv(C) => LoadsWholeImage
  <2> SUFFICES ASSUME CommandInv(C), NEW t \in Terminals, run[t].image # NoEntry
               PROVE  LET n == Entries[run[t].image].inode
                          image == read_data(n, 0, ImageSize)
                      IN /\ Len(image) >= Inodes[n].length
                         /\ SubSeq(image, 1, Inodes[n].length) = Contents(n)
    BY DEF LoadsWholeImage
  <2>1. run[t].image \in DOMAIN Entries
    BY DEF CommandInv, RunInv, RunImage
  <2>2. Entries[run[t].image].inode \in DOMAIN Inodes
    BY <2>1, GoodEntries DEF Calm
  <2> QED
    BY <2>2, LoadsAll DEF Calm
<1> QED
  BY <1>1, CommandInvariance, PTL
=============================================================================
