------------------------------- MODULE Buffer -------------------------------
(***************************************************************************)
(* buffer.cpp: a vector of bytes with a read and a write position.  The    *)
(* operators return the buffer that the methods leave.  A byte is a member *)
(* of any set that has NUL in it.                                          *)
(***************************************************************************)
EXTENDS Integers, Sequences

CONSTANT NUL    \* the byte that bzero and resize write

Filled(n) == [i \in 1..n |-> NUL]

Buffer(initBuffSize) ==
  [buffer_ |-> Filled(initBuffSize), readPos_ |-> 0, writePos_ |-> 0]

ReadableBytes(b) == b.writePos_ - b.readPos_

WritableBytes(b) == Len(b.buffer_) - b.writePos_

PrependableBytes(b) == b.readPos_

\* The n bytes from position p on, and those that can be read.
BytesAt(b, p, n) == SubSeq(b.buffer_, p + 1, p + n)
Contents(b) == BytesAt(b, b.readPos_, ReadableBytes(b))

\* What every method's assert() asks for.
IsBuffer(b, Byte) ==
  /\ b = [buffer_ |-> b.buffer_, readPos_ |-> b.readPos_, writePos_ |-> b.writePos_]
  /\ b.buffer_ \in Seq(Byte)
  /\ b.readPos_ \in Nat /\ b.writePos_ \in Nat
  /\ b.readPos_ <= b.writePos_ /\ b.writePos_ <= Len(b.buffer_)

Retrieve(b, len) == [b EXCEPT !.readPos_ = @ + len]

\* Mutant: the end of the line is taken for the length of the line.
RetrieveToEnd(b, end) == Retrieve(b, end)

\* end is a position in buffer_, as Peek() + readPos_ is in the code.
RetrieveUntil(b, end) == Retrieve(b, end - b.readPos_)

RetrieveAll(b) == Buffer(Len(b.buffer_))

HasWritten(b, len) == [b EXCEPT !.writePos_ = @ + len]

\* Mutant: the positions are moved to the front, the bytes are not.
MakeSpaceUncopied(b, len) ==
  IF WritableBytes(b) + PrependableBytes(b) < len
  THEN [b EXCEPT !.buffer_ = @ \o Filled(b.writePos_ + len + 1 - Len(@))]
  ELSE [b EXCEPT !.readPos_ = 0, !.writePos_ = ReadableBytes(b)]

MakeSpace_(b, len) ==
  IF WritableBytes(b) + PrependableBytes(b) < len
  THEN [b EXCEPT !.buffer_ = @ \o Filled(b.writePos_ + len + 1 - Len(@))]
  ELSE [buffer_ |-> Contents(b) \o SubSeq(b.buffer_, ReadableBytes(b) + 1, Len(b.buffer_)),
        readPos_ |-> 0, writePos_ |-> ReadableBytes(b)]

EnsureWriteable(b, len) == IF WritableBytes(b) < len THEN MakeSpace_(b, len) ELSE b

\* s is copied to BeginWrite(), where there is room for it.
Copied(b, s) ==
  [b EXCEPT !.buffer_ = SubSeq(@, 1, b.writePos_) \o s
                          \o SubSeq(@, b.writePos_ + Len(s) + 1, Len(@))]

AppendBytes(b, s) == HasWritten(Copied(EnsureWriteable(b, Len(s)), s), Len(s))

\* readv() delivered s: first to the room left, then to the array on the stack.
ReadFd(b, s) ==
  LET writable == WritableBytes(b) IN
  IF Len(s) <= writable
  THEN HasWritten(Copied(b, s), Len(s))
  ELSE AppendBytes(HasWritten(Copied(b, SubSeq(s, 1, writable)), writable),
                   SubSeq(s, writable + 1, Len(s)))
=============================================================================
