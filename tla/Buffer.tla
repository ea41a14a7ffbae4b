------------------------------- MODULE Buffer -------------------------------
(***************************************************************************)
(* Buffer.hh and Buffer.cpp of src/NewHttpRequest/TcpClient: a vector of   *)
(* which the bytes from m_readerIndex up to m_writerIndex are the content. *)
(* An operation returns the buffer that it leaves; ok says whether every   *)
(* assert on the way held.  data[i] is m_buffer[i - 1].                    *)
(* A definition named X_Y is X with the mistake Y: it shows that a         *)
(* property notices the mistake, and no specification uses it.             *)
(***************************************************************************)
EXTENDS Naturals, Sequences

CONSTANTS
    CheapPrepend,   (* kCheapPrepend                                       *)
    InitialSize,    (* kInitialSize                                        *)
    ExtraSize       (* kExtraBufferSize, on the stack of readFd()          *)

ASSUME BufferAssumption ==
    /\ CheapPrepend \in Nat
    /\ InitialSize \in Nat
    /\ ExtraSize \in Nat

Buffers(Byte) ==
    {b \in [data : Seq(Byte), reader : Nat, writer : Nat, ok : BOOLEAN] :
        CheapPrepend <= b.reader /\ b.reader <= b.writer /\ b.writer <= Len(b.data)}

NewBuffer ==
    [data |-> [i \in 1..CheapPrepend + InitialSize |-> 0],
     reader |-> CheapPrepend, writer |-> CheapPrepend, ok |-> TRUE]

Readable(b) == b.writer - b.reader
Writable(b) == Len(b.data) - b.writer

(* The content.                                                             *)
Peek(b) == [i \in 1..Readable(b) |-> b.data[b.reader + i]]

RetrieveAll(b) == [b EXCEPT !.reader = CheapPrepend, !.writer = CheapPrepend]

Retrieve(b, len) ==
    IF len < Readable(b) THEN [b EXCEPT !.reader = @ + len]
    ELSE [RetrieveAll(b) EXCEPT !.ok = @ /\ len <= Readable(b)]

(* makeSpace(): m_buffer.resize(), or std::copy() to the front.             *)
Resized(b, len) ==
    [b EXCEPT !.data = [i \in 1..b.writer + len |-> IF i <= Len(@) THEN @[i] ELSE 0]]

Moved(b) ==
    [data |-> [i \in 1..Len(b.data) |->
                  IF i \in CheapPrepend + 1..CheapPrepend + Readable(b)
                  THEN b.data[i - CheapPrepend + b.reader] ELSE b.data[i]],
     reader |-> CheapPrepend,
     writer |-> CheapPrepend + Readable(b),
     ok |-> b.ok /\ CheapPrepend < b.reader]

(* The prependable bytes are all given away.                                *)
MakeSpace_NoPrepend(b, len) ==
    IF Writable(b) + b.reader < len THEN Resized(b, len) ELSE Moved(b)

MakeSpace(b, len) ==
    IF Writable(b) + b.reader < len + CheapPrepend THEN Resized(b, len) ELSE Moved(b)

(* std::copy() to beginWrite() and hasWritten().                            *)
Written(b, s) ==
    [data |-> [i \in 1..Len(b.data) |->
                  IF i \in b.writer + 1..b.writer + Len(s) THEN s[i - b.writer]
                  ELSE b.data[i]],
     reader |-> b.reader,
     writer |-> b.writer + Len(s),
     ok |-> b.ok /\ Len(s) <= Writable(b)]

AppendBytes(b, s) ==
    Written(IF Writable(b) < Len(s) THEN MakeSpace(b, Len(s)) ELSE b, s)

(* readFd(): as many bytes as readv() may return, and those it returned.    *)
MostRead(b) == Writable(b) + (IF Writable(b) < ExtraSize THEN ExtraSize ELSE 0)

ReadFd(b, s) ==
    IF Len(s) <= Writable(b) THEN Written(b, s)
    ELSE LET full == Written(b, SubSeq(s, 1, Writable(b)))
         IN  AppendBytes(full, SubSeq(s, Writable(b) + 1, Len(s)))
=============================================================================
