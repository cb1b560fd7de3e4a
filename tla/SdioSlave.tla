---- MODULE SdioSlave ----
(***************************************************************************)
(* The sending half of the SDIO driver, at_lobo/driver/sdio_slv.c: the     *)
(* replies of the AT interpreter are copied into buffers that circulate    *)
(* between two linked lists, `ToSend' and `Sended' (the free ones), which  *)
(* sdio_load_data changes from the main program and sdio_read_done_process *)
(* from the interrupt.  The main program masks the interrupt while it      *)
(* relinks a buffer but not while it copies, and it does not mask it again *)
(* when it leaves the loop because no buffer is free.                      *)
(*                                                                         *)
(* A list is a sequence of buffers plus the variable holding its tail      *)
(* pointer, which the code leaves stale when it empties a list.            *)
(* Bytes are numbered in the order in which the driver takes them over.    *)
(***************************************************************************)
EXTENDS Naturals, Sequences, SequencesExt, FiniteSets

CONSTANTS
    Bufs,       \* the buffers (RX_BUFFER_NUM of them)
    NoBuf,
    RxSize,     \* RX_BUFFER_SIZE
    MaxLen,     \* the longest reply
    MaxBytes,   \* bound: bytes taken over and offered in one behaviour
    SlowHost    \* the host cannot read every buffer within the instructions
                \* between the `break' of the loop and the test after it

ASSUME SdioAssumption ==
    /\ IsFiniteSet(Bufs) /\ Cardinality(Bufs) >= 2     \* the code has five
    /\ NoBuf \notin Bufs
    /\ RxSize \in Nat \ {0}
    /\ MaxLen \in Nat
    /\ MaxBytes \in Nat
    /\ SlowHost \in BOOLEAN

VARIABLES
    toSend,     \* the list at pHead_ToSend
    tTail,      \* pTail_ToSend
    sended,     \* the list at pHead_Sended
    sTail,      \* pTail_Sended
    buf,        \* what each buffer holds, from its start to its `tail'
    has_read,   \* has_read
    rx,         \* the buffer the hardware may hand to the host
    eof,        \* the host has read it: the interrupt is pending
    pc,         \* where sdio_load_data is
    temp,       \* temp_list
    len,        \* bytes of the reply not yet copied
    accepted,   \* bytes taken over so far
    received    \* what the host has read

lists == <<toSend, tTail, sended, sTail>>
link == <<has_read, rx>>
caller == <<pc, temp, len, accepted>>
vars == <<lists, buf, link, eof, caller, received>>

\* The interrupt is masked between a relinking and what follows it.
Masked == pc \in {"again", "check"}

\* tail->next = b; tail = b: what follows the tail in the list is lost, and
\* b is lost when the tail is not in the list.
Linked(list, tail, b) ==
    IF tail \in Range(list)
    THEN Append(SubSeq(list, 1, CHOOSE i \in DOMAIN list : list[i] = tail), b)
    ELSE list

Init ==
    /\ toSend = <<>> /\ tTail = NoBuf
    /\ sended \in {s \in [1 .. Cardinality(Bufs) -> Bufs] : Range(s) = Bufs}
    /\ sTail = Last(sended)
    /\ buf = [b \in Bufs |-> <<>>]
    /\ has_read = TRUE
    /\ rx = NoBuf
    /\ eof = FALSE
    /\ pc = "idle" /\ temp = NoBuf /\ len = 0 /\ accepted = 0
    /\ received = <<>>

-----------------------------------------------------------------------------
(* The hardware and the interrupt *)

\* rx_buff_load_done of a buffer: one with nothing in it is not loaded, but
\* both callers clear has_read all the same.
Load(b) ==
    /\ rx' = IF buf'[b] = <<>> THEN rx ELSE b
    /\ has_read' = FALSE

\* sdio_try_to_load, once the list is `list'.
sdio_try_to_load(list) ==
    IF has_read /\ list # <<>> THEN Load(Head(list)) ELSE UNCHANGED link

\* The host reads the loaded buffer.
HostRead ==
    /\ rx # NoBuf
    /\ SlowHost /\ pc = "broke" => Len(toSend) > 1
    /\ received' = received \o buf[rx]
    /\ rx' = NoBuf
    /\ eof' = TRUE
    /\ UNCHANGED <<lists, buf, has_read, caller>>

\* Faulty variant of Freed: the tail is used though the list may be empty.
Freed_TailOnly == Linked(sended, sTail, Head(toSend))

\* The buffer that was read goes to the end of the free ones.
Freed ==
    IF sended # <<>> THEN Linked(sended, sTail, Head(toSend))
                     ELSE <<Head(toSend)>>

\* and is emptied.
Emptied == [buf EXCEPT ![Head(toSend)] = <<>>]

\* Faulty variants of PartWaits: the end of a reply is not looked for; any free
\* buffer is sent.
PartWaits_Never == FALSE
PartWaits_Unchecked == Freed # <<>>

\* The first free buffer holds the end of a reply.
PartWaits == Emptied[Head(Freed)] # <<>>

\* sdio_slave_isr on SLC_RX_EOF: rx_buff_read_done, sdio_read_done_process.
sdio_read_done_process ==
    /\ eof /\ ~Masked
    /\ eof' = FALSE
    /\ sTail' = Head(toSend)
    /\ buf' = Emptied
    /\ \/ /\ Len(toSend) > 1
          /\ toSend' = Tail(toSend)
          /\ sended' = Freed
          /\ Load(toSend[2])
          /\ UNCHANGED tTail
       \/ /\ Len(toSend) = 1 /\ PartWaits
          /\ toSend' = <<Head(Freed)>>
          /\ tTail' = Head(Freed)
          /\ sended' = Tail(Freed)
          /\ Load(Head(Freed))
       \/ /\ Len(toSend) = 1 /\ ~PartWaits
          /\ toSend' = <<>>
          /\ sended' = Freed
          /\ has_read' = TRUE
          /\ UNCHANGED <<tTail, rx>>
    /\ UNCHANGED <<caller, received>>

-----------------------------------------------------------------------------
(* The main program: sdio_load_data *)

\* A reply of n bytes; with no free buffer at all it is dropped.
at_sdio_response(n) ==
    /\ pc = "idle"
    /\ sended # <<>>
    /\ accepted + n <= MaxBytes
    /\ pc' = "next"
    /\ len' = n
    /\ UNCHANGED <<lists, buf, link, eof, temp, accepted, received>>

\* The head of the loop: the first free buffer is taken out, or there is
\* none, and the loop is left with the interrupt enabled.
Take ==
    /\ pc \in {"next", "again"}
    /\ \/ /\ sended = <<>>
          /\ pc' = "broke"
          /\ UNCHANGED <<sended, temp>>
       \/ /\ sended # <<>>
          /\ pc' = "copy"
          /\ temp' = Head(sended)
          /\ sended' = Tail(sended)
    /\ UNCHANGED <<toSend, tTail, sTail, buf, link, eof, len, accepted, received>>

\* os_memcpy of n bytes behind what the buffer holds.
Copy(n) ==
    /\ buf' = [buf EXCEPT ![temp] = @ \o [i \in 1 .. n |-> accepted + i]]
    /\ accepted' = accepted + n
    /\ len' = len - n

\* Faulty variant of Room: one more than fits.
Room_OneMore == RxSize - Len(buf[temp]) + 1

Room == RxSize - Len(buf[temp])

\* Faulty variants of PutBack: the buffer goes to the end of the free ones; its
\* tail is not moved.
PutBack_AtEnd ==
    /\ pc = "copy"
    /\ len < Room
    /\ Copy(len)
    /\ sended' = sended \o <<temp>>
    /\ temp' = NoBuf
    /\ pc' = "check"
    /\ UNCHANGED <<toSend, tTail, sTail, link, eof, received>>

PutBack_NoTail ==
    /\ pc = "copy"
    /\ len < Room
    /\ accepted' = accepted + len /\ len' = 0 /\ buf' = buf
    /\ sended' = <<temp>> \o sended
    /\ temp' = NoBuf
    /\ pc' = "check"
    /\ UNCHANGED <<toSend, tTail, sTail, link, eof, received>>

\* The rest fits and leaves room: the buffer goes back as the first free one.
PutBack ==
    /\ pc = "copy"
    /\ len < Room
    /\ Copy(len)
    /\ sended' = <<temp>> \o sended
    /\ temp' = NoBuf
    /\ pc' = "check"
    /\ UNCHANGED <<toSend, tTail, sTail, link, eof, received>>

\* The buffer is full: it is queued, and loaded when nothing was queued.
Queue ==
    /\ pc = "copy"
    /\ len >= Room
    /\ Copy(Room)
    /\ tTail' = temp
    /\ \/ /\ toSend = <<>>
          /\ toSend' = <<temp>>
          /\ sdio_try_to_load(toSend')
       \/ /\ toSend # <<>>
          /\ toSend' = Linked(toSend, tTail, temp)
          /\ UNCHANGED link
    /\ temp' = NoBuf
    /\ pc' = IF len > Room THEN "again" ELSE "check"
    /\ UNCHANGED <<sended, sTail, eof, received>>

\* The end: when nothing is queued the first free buffer is, even if nothing
\* is in it.  What did not fit is forgotten.
Finish ==
    /\ pc \in {"check", "broke"}
    /\ \/ /\ toSend = <<>>
          /\ toSend' = <<Head(sended)>>
          /\ tTail' = Head(sended)
          /\ sended' = Tail(sended)
          /\ buf' = buf
          /\ sdio_try_to_load(toSend')
       \/ /\ toSend # <<>>
          /\ UNCHANGED <<toSend, tTail, sended, buf, link>>
    /\ pc' = "idle"
    /\ len' = 0
    /\ UNCHANGED <<sTail, eof, temp, accepted, received>>

sdio_load_data == Take \/ PutBack \/ Queue \/ Finish

Next ==
    \/ \E n \in 1 .. MaxLen : at_sdio_response(n)
    \/ sdio_load_data
    \/ HostRead
    \/ sdio_read_done_process

\* The main program and the interrupt run; the host fetches what the
\* interrupt line announces.
Fairness ==
    /\ WF_vars(sdio_load_data)
    /\ WF_vars(sdio_read_done_process)
    /\ WF_vars(HostRead)

Spec == Init /\ [][Next]_vars
FairSpec == Spec /\ Fairness

-----------------------------------------------------------------------------
(* Properties *)

\* Every variable keeps its type (the lists and counters of sdio_slv.c).
TypeOK ==
    /\ toSend \in Seq(Bufs) /\ tTail \in Bufs \cup {NoBuf}
    /\ sended \in Seq(Bufs) /\ sTail \in Bufs
    /\ buf \in [Bufs -> Seq(1 .. MaxBytes)]
    /\ \A b \in Bufs : Len(buf[b]) <= RxSize
    /\ has_read \in BOOLEAN
    /\ rx \in Bufs \cup {NoBuf}
    /\ eof \in BOOLEAN
    /\ pc \in {"idle", "next", "again", "copy", "check", "broke"}
    /\ temp \in Bufs \cup {NoBuf}
    /\ len \in 0 .. MaxLen
    /\ accepted \in 0 .. MaxBytes
    /\ received \in Seq(1 .. MaxBytes)

\* The places a buffer can be.
Held == toSend \o sended \o (IF pc = "copy" THEN <<temp>> ELSE <<>>)

\* No buffer is lost from the lists or linked twice, whatever the interrupt
\* does while a buffer is being filled: sdio_load_data takes buffers out and
\* puts them back in separate critical sections.
BuffersConserved == Range(Held) = Bufs /\ Len(Held) = Cardinality(Bufs)

\* The tail pointer of a list that is not empty is its last buffer; the code
\* leaves the pointers alone when a list becomes empty.
TailsRight ==
    /\ toSend # <<>> => tTail = Last(toSend)
    /\ sended # <<>> => sTail = Last(sended)

\* While has_read is clear, the host has something to read or has just read
\* it: else no interrupt ever comes and nothing is ever loaded again
\* (sdio_try_to_load clears has_read even when it loads an empty buffer).
NeverWedged == ~has_read => rx # NoBuf \/ eof

\* The buffers whose content the host has not read, in the order they will
\* be sent; the last one may be the partly filled buffer that waits among
\* the free ones or is being filled.
Unread ==
    (IF eof THEN Tail(toSend) ELSE toSend)
        \o (IF pc = "copy" THEN <<temp>>
            ELSE IF sended # <<>> THEN <<Head(sended)>> ELSE <<>>)

Waiting == FlattenSeq([i \in DOMAIN Unread |-> buf[Unread[i]]])

\* Every byte taken over reaches a host that keeps reading, also the ones in
\* a buffer that is not full: nothing but the next read-complete interrupt
\* or the next reply sends that buffer.
Delivered == \A n \in 1 .. MaxBytes : accepted = n ~> Len(received) >= n

\* The driver implements the stream of bytes it is used as.
Stream == INSTANCE ByteStream WITH
    MaxTake <- RxSize, pending <- Waiting, got <- Len(received)
StreamSpec == Stream!Spec
====
