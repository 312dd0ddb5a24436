--------------------------- MODULE GrowingBitmap ---------------------------
(***************************************************************************)
(* The bitmap of deleted documents in memory and in its file               *)
(* (BitmapManager), as GammaEngine uses it: each change of a bit is        *)
(* written to the file, SetMaxID doubles the bitmap when the ids in use    *)
(* reach its size, a restart takes the size from the file.  One thread     *)
(* changes the bitmap, searches test bits at any time, and the process may *)
(* end between any two steps; the rows of the documents are durable then.  *)
(***************************************************************************)
EXTENDS Integers, FiniteSets

CONSTANTS
  ByteBits,      \* bits of a byte: 8 in the program
  FirstBits,     \* size of a new bitmap: 50 million in the program
  BatchSizes,    \* documents one call adds
  MaxAdded,      \* bound: documents ever added
  MaxFlips,      \* bound: bits ever changed
  MaxEnds        \* bound: ends of the process

ASSUME BitmapAssumption ==
  /\ {ByteBits, FirstBits} \subseteq Nat \ {0} /\ FirstBits % ByteBits = 0
  /\ BatchSizes \subseteq Nat \ {0} /\ {MaxAdded, MaxFlips, MaxEnds} \subseteq Nat

VARIABLES
  inUse,       \* max_docid_
  size_,
  room,        \* bits the array that bitmap_ points to has room for
  bits,        \* those set in that array
  fileSize, fileBits,
  step,        \* of the thread that changes: "idle", "grow", "copy", "dump", "save"
  bit,         \* the bit it changes
  marks,       \* history: the bits set by calls that had room for theirs and returned
  flips, ends

bitmapVars == <<inUse, size_, room, bits, fileSize, fileBits, step, bit, marks, flips, ends>>

\* The bits of an array made for size bits: it has a byte more than needed.
RoomExact(size) == size
RoomFor(size) == (size \div ByteBits + 1) * ByteBits
OfFile(n) == (n \div ByteBits) * ByteBits

\* Setup of an engine without a file.
BitmapInit ==
  /\ inUse = 0 /\ size_ = FirstBits /\ room = RoomFor(FirstBits) /\ bits = {}
  /\ fileSize = FirstBits /\ fileBits = {}
  /\ step = "idle" /\ bit = 0 /\ marks = {} /\ flips = 0 /\ ends = 0

\* Documents get ids; then SetMaxID.
AddIds(n) ==
  /\ step = "idle" /\ inUse + n <= MaxAdded
  /\ inUse' = inUse + n /\ step' = "grow"
  /\ UNCHANGED <<size_, room, bits, fileSize, fileBits, bit, marks, flips, ends>>

FitsIds == size_ > inUse

DoubleSize ==
  /\ step = "grow"
  /\ IF FitsIds THEN step' = "idle" /\ UNCHANGED size_
     ELSE step' = "copy" /\ size_' = 2 * size_
  /\ UNCHANGED <<inUse, room, bits, fileSize, fileBits, bit, marks, flips, ends>>

CopiedExact == {b \in bits : b < room - ByteBits - 1}
Copied == {b \in bits : b < room}

SwitchArray ==
  /\ step = "copy" /\ step' = "dump"
  /\ room' = RoomFor(size_) /\ bits' = Copied
  /\ UNCHANGED <<inUse, size_, fileSize, fileBits, bit, marks, flips, ends>>

DumpAll ==
  /\ step = "dump" /\ step' = "idle"
  /\ fileSize' = size_ /\ fileBits' = {b \in bits : b < size_}
  /\ UNCHANGED <<inUse, size_, room, bits, bit, marks, flips, ends>>

FlippedNext(set, b) == (set \ {b}) \union ({b + 1} \ set)
Flipped(set, b) == (set \ {b}) \union ({b} \ set)

\* Delete (Set) or the revival of a document (Unset).  A bit beyond the
\* size is left alone, and the call does not notice.
FlipBit(b) ==
  /\ step = "idle" /\ flips < MaxFlips
  /\ bits' = IF b < size_ THEN Flipped(bits, b) ELSE bits
  /\ step' = "save" /\ bit' = b /\ flips' = flips + 1
  /\ UNCHANGED <<inUse, size_, room, fileSize, fileBits, marks, ends>>

NextByte(b) == {c \in 0 .. size_ - 1 : c \div ByteBits = b \div ByteBits + 1}
ByteOf(b) == {c \in 0 .. size_ - 1 : c \div ByteBits = b \div ByteBits}

\* Dump(b, 1) writes the byte of the bit.
SaveBit ==
  /\ step = "save" /\ step' = "idle"
  /\ fileBits' = IF bit + 1 > size_ THEN fileBits
                 ELSE (fileBits \ ByteOf(bit)) \union (bits \intersect ByteOf(bit))
  /\ marks' = IF bit < size_ THEN Flipped(marks, bit) ELSE marks
  /\ UNCHANGED <<inUse, size_, room, bits, fileSize, bit, flips, ends>>

\* The end of the process and the next Setup and Load.
RestartEngine ==
  /\ ends < MaxEnds /\ ends' = ends + 1
  /\ size_' = OfFile(fileSize) /\ room' = RoomFor(size_') /\ bits' = fileBits
  /\ step' = "idle"
  /\ UNCHANGED <<inUse, fileSize, fileBits, bit, marks, flips>>

BitmapNext ==
  \/ \E n \in BatchSizes : AddIds(n)
  \/ DoubleSize \/ SwitchArray \/ DumpAll \/ SaveBit \/ RestartEngine
  \/ \E b \in 0 .. inUse - 1 : FlipBit(b)

BitmapSpec == BitmapInit /\ [][BitmapNext]_bitmapVars

-----------------------------------------------------------------------------
(* Properties. *)

BitmapTypeOK ==
  /\ inUse \in 0 .. MaxAdded /\ size_ \in Nat /\ room \in Nat /\ fileSize \in Nat
  /\ bits \subseteq 0 .. inUse - 1 /\ fileBits \subseteq 0 .. fileSize - 1
  /\ step \in {"idle", "grow", "copy", "dump", "save"}
  /\ bit \in 0 .. MaxAdded /\ marks \subseteq 0 .. inUse - 1
  /\ flips \in 0 .. MaxFlips /\ ends \in 0 .. MaxEnds

\* A search tests any id in use and Test compares it with size_, which is
\* doubled before the array: the byte that every array has in excess is what
\* keeps the test of a document just added inside the old one.
TestsStayInside == \A b \in 0 .. inUse - 1 : b < size_ => b < room

\* Deletions and revivals whose call has returned stay, in memory and in the
\* file, through growth and restarts at any step.  Only those of documents
\* beyond the bitmap are lost: documents added in calls cut off twice between
\* the document and SetMaxID (gamma_engine.cc:888), or once in a batch.
MarksSurvive == step = "idle" => bits = marks /\ fileBits = marks

\* Searches test bits that exist, and marks survive growth and restarts.
BitmapInv ==
  /\ BitmapTypeOK
  /\ TestsStayInside
  /\ MarksSurvive
=============================================================================
