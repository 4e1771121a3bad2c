--------------------------- MODULE PortMuxProofs ---------------------------
(***************************************************************************)
(* Proofs about PortMux, for every ring size and every set of requests:    *)
(* types, the read gate, the injected line, the dead-man, and that a line  *)
(* read behind dropped bytes is never carried out.                         *)
(***************************************************************************)
EXTENDS PortMux, TLAPS, WellFoundedInduction

-----------------------------------------------------------------------------
(* The inductive invariant.                                                *)

\* The line at the front of the ring is the injected one, and its status is
\* due only when the core has read all of it.
InjectedFront ==
    /\ inj_left > 0 => /\ inj_active /\ Len(ring) >= inj_left
                       /\ ring[inj_left] = "n" /\ ring[1] # "c"
    /\ inj_status_due => inj_active /\ inj_left = 0

\* Who the port works for: a line is outstanding exactly while it is injected,
\* and only for a client that is there; the poll reads a request only then.
PortWork ==
    /\ inj_active = awaiting
    /\ port_fd = "none" => ~awaiting /\ deferred = "none"
    /\ deferred # "none" => ~awaiting
    /\ pc = "request" => port_fd # "none" /\ ~awaiting /\ deferred = "none"
    /\ pc = "deferred" => deferred # "none"

\* A jog marked as the port's runs, once the gate has looked; one that lost its
\* client uncancelled is over, and no line ends before the gate looks again.
PortJogs ==
    /\ pc \in {"client", "deferred", "request"} /\ port_jog /\ ~awaiting => st = "jog"
    /\ port_fd = "none" /\ port_jog /\ ~cancel_sent =>
           st # "jog" /\ (pc = "core" => ~hooked)
    /\ pc = "restart" => st # "jog" /\ ~hooked

\* A fragment in the core's line buffer: the rest of its line is in the ring or
\* still to come, or bytes were dropped, or a flush has taken the rest.
Fragments ==
    /\ "port" \in buffered => inj_left = 1 \/ orphan
    /\ "sender" \in buffered =>
           hole \/ orphan \/ (inj_left = 0 /\ (sender_midline \/ ring # <<>>))
    /\ ring # <<>> /\ ring[Len(ring)] = "b" => sender_midline \/ hole

\* Dropped bytes are on their way to a reset, ahead of any line read behind them.
Overruns ==
    /\ hole => rx_overrun \/ exec_reset
    /\ running # "none" /\ spoiled /\ ~torn => exec_reset \/ (rx_overrun /\ ~hooked)
    /\ pc = "restart" => running = "none"

\* The types, the flags apart from the rest.
Flags ==
    /\ keep_out \in BOOLEAN /\ rx_discarding \in BOOLEAN /\ rx_overrun \in BOOLEAN
    /\ sender_midline \in BOOLEAN /\ read_midline \in BOOLEAN /\ sender_line_open \in BOOLEAN
    /\ inj_active \in BOOLEAN /\ inj_status_due \in BOOLEAN /\ hold_sender \in BOOLEAN
    /\ awaiting \in BOOLEAN /\ awaiting_jog \in BOOLEAN /\ port_jog \in BOOLEAN
    /\ cancel_sent \in BOOLEAN /\ tray_want \in BOOLEAN /\ envelope_hold \in BOOLEAN
    /\ envelope_is_open \in BOOLEAN /\ exec_cancel \in BOOLEAN /\ exec_reset \in BOOLEAN
    /\ hooked \in BOOLEAN /\ hole \in BOOLEAN /\ orphan \in BOOLEAN
    /\ spoiled \in BOOLEAN /\ torn \in BOOLEAN

\* States, sources and counts.
Kinds ==
    /\ pc \in {"core", "rx", "gate", "client", "deferred", "request", "restart"}
    /\ sender \in {"none", "net", "local"}
    /\ port_fd \in {"none", "open", "hungup"}
    /\ deferred \in {"none", "jog", "command", "tray"}
    /\ st \in {"idle", "run", "jog", "alarm"}
    /\ running \in {"none", "sender", "port"}
    /\ buffered \subseteq {"sender", "port"}
    /\ inj_left \in 0..2

RingType == ring \in Seq({"b", "n", "c"}) /\ Len(ring) <= RingCap

PortInv ==
    /\ Flags /\ Kinds /\ RingType
    /\ GateExact /\ InjectedFront /\ PortWork /\ PortJogs /\ Fragments /\ Overruns

USE PortMuxAssumption DEF PortMuxAssumption, ringVars, sessionVars, readVars, injVars,
    portVars, clientVars, gateVars, coreVars, runVars

-----------------------------------------------------------------------------
(* The ring.                                                               *)

\* A set of positions has a last one.
LEMMA LastOf ==
    ASSUME NEW n \in Nat, NEW E \in SUBSET (1..n), E # {}
    PROVE  \E i \in E : \A j \in E : j <= i
  <1> DEFINE D == {n - i : i \in E}
  <1>1. D \subseteq Nat /\ D # {}
    <2>1. PICK i \in E : TRUE
      OBVIOUS
    <2>2. n - i \in D
      OBVIOUS
    <2> QED BY <2>2
  <1>2. PICK d \in D : \A e \in D : ~(<<e, d>> \in OpToRel(<, Nat))
    BY <1>1, NatLessThanWellFounded, WFMin
  <1>3. \A e \in D : ~(e < d)
    BY <1>1, <1>2 DEF OpToRel
  <1>4. PICK i \in E : d = n - i
    OBVIOUS
  <1>5. \A j \in E : j <= i
    BY <1>3, <1>4
  <1> QED BY <1>5

\* What an overrun leaves: a prefix of the ring that keeps every end of line.
LEMMA UpToEolForm ==
    ASSUME NEW r \in Seq({"b", "n", "c"})
    PROVE  \E k \in 0..Len(r) :
              /\ UpToEol(r) \in Seq({"b", "n", "c"}) /\ Len(UpToEol(r)) = k
              /\ \A i \in 1..k : UpToEol(r)[i] = r[i]
              /\ \A i \in 1..Len(r) : r[i] = "n" => i <= k
              /\ k > 0 => r[k] = "n"
  <1> DEFINE ends == {i \in 1..Len(r) : r[i] = "n"}
             k == IF ends = {} THEN 0 ELSE CHOOSE i \in ends : \A j \in ends : j <= i
  <1>1. UpToEol(r) = SubSeq(r, 1, k)
    BY DEF UpToEol
  <1>2. k \in 0..Len(r) /\ (\A i \in ends : i <= k) /\ (k > 0 => r[k] = "n")
    <2>1. CASE ends = {}
      BY <2>1
    <2>2. CASE ends # {}
      <3>1. \E i \in ends : \A j \in ends : j <= i
        <4>1. Len(r) \in Nat /\ ends \in SUBSET (1..Len(r))
          OBVIOUS
        <4> HIDE DEF ends
        <4> QED BY <2>2, <4>1, LastOf
      <3>2. k \in ends /\ \A j \in ends : j <= k
        BY <2>2, <3>1
      <3> HIDE DEF k
      <3> QED BY <3>2
    <2> QED BY <2>1, <2>2
  <1> HIDE DEF k
  <1>3. /\ SubSeq(r, 1, k) \in Seq({"b", "n", "c"}) /\ Len(SubSeq(r, 1, k)) = k
        /\ \A i \in 1..k : SubSeq(r, 1, k)[i] = r[i]
    BY <1>2
  <1> QED BY <1>1, <1>2, <1>3

\* An injected line in an empty ring.
LEMMA InjectForm ==
    ASSUME Inject
    PROVE  /\ RingType' /\ ring' # <<>> /\ Len(ring') = 2 /\ ring'[1] = "b" /\ ring'[2] = "n"
           /\ inj_active' = TRUE /\ inj_left' = 2 /\ inj_status_due' = FALSE
  BY DEF Inject, RingType

\* What a byte of the sender's does to the ring: nothing while a line is being
\* discarded, one more behind, or back to the last end of line.
LEMMA ByteForm ==
    ASSUME RingType, Flags, NEW byte \in {"b", "n"}, RxByte(byte)
    PROVE  /\ RingType'
           /\ \/ UNCHANGED <<ring, sender_midline, hole, rx_overrun>>
              \/ /\ Len(ring') = Len(ring) + 1 /\ ring'[Len(ring')] = byte
                 /\ \A i \in 1..Len(ring) : ring'[i] = ring[i]
                 /\ sender_midline' = (byte # "n") /\ UNCHANGED <<hole, rx_overrun>>
              \/ /\ Len(ring') <= Len(ring)
                 /\ \A i \in 1..Len(ring') : ring'[i] = ring[i]
                 /\ \A i \in 1..Len(ring) : ring[i] = "n" => i <= Len(ring')
                 /\ hole' = TRUE /\ rx_overrun' = TRUE
           /\ UNCHANGED <<injVars, sender, buffered, orphan>>
  <1>1. CASE rx_discarding
    BY <1>1 DEF RxByte, RingType
  <1>2. CASE ~rx_discarding /\ ~RingFull
    <2>1. ring' = Append(ring, byte) /\ Len(ring) \in Nat /\ Len(ring) # RingCap
      BY <1>2 DEF RxByte, RingType, RingFull
    <2>2. /\ ring' \in Seq({"b", "n", "c"}) /\ Len(ring') = Len(ring) + 1
          /\ ring'[Len(ring')] = byte /\ \A i \in 1..Len(ring) : ring'[i] = ring[i]
      BY <2>1 DEF RingType
    <2>3. RingType'
      BY <2>1, <2>2 DEF RingType
    <2> QED BY <1>2, <2>2, <2>3 DEF RxByte
  <1>3. CASE ~rx_discarding /\ RingFull
    <2>1. ring' = UpToEol(ring) /\ hole' = TRUE /\ rx_overrun' = TRUE
      BY <1>3 DEF RxByte, Overrun
    <2>2. PICK k \in 0..Len(ring) :
              /\ ring' \in Seq({"b", "n", "c"}) /\ Len(ring') = k
              /\ \A i \in 1..k : ring'[i] = ring[i]
              /\ \A i \in 1..Len(ring) : ring[i] = "n" => i <= k
      BY <2>1, UpToEolForm DEF RingType
    <2>3. RingType'
      BY <2>2 DEF RingType
    <2>4. Len(ring') <= Len(ring)
      BY <2>2 DEF RingType
    <2>5. UNCHANGED <<injVars, sender, buffered, orphan>>
      BY DEF RxByte
    <2> QED BY <2>1, <2>2, <2>3, <2>4, <2>5
  <1> QED BY <1>1, <1>2, <1>3

-----------------------------------------------------------------------------
(* The parts of the invariant, step by step.                               *)

\* The flags of serial.c's ring.
LEMMA RingFlags ==
    ASSUME PortInv, [Next]_vars
    PROVE  /\ rx_discarding' \in BOOLEAN /\ rx_overrun' \in BOOLEAN
           /\ sender_midline' \in BOOLEAN /\ hole' \in BOOLEAN
  <1>1. CASE \/ UNCHANGED vars
             \/ RxQuiet \/ RxReset \/ PortGate
             \/ (\E knock \in BOOLEAN : PortAccept(knock)) \/ PortDeferred
             \/ (\E op \in {"jog", "command", "tray"} : RequestLine(op))
             \/ (\E open \in BOOLEAN : RequestEnvelope(open)) \/ RequestCancel
             \/ RequestSenderIn \/ RequestHangup \/ RequestNone \/ ReadBody \/ ReadEol
             \/ ReadCancel \/ (\E ok, jogs \in BOOLEAN : LineEnds(ok, jogs)) \/ MotionEnds
             \/ TakeCancel \/ ClientCloses
    <2>1. UNCHANGED <<rx_discarding, rx_overrun, sender_midline, hole>>
      BY <1>1 DEF RxQuiet, RxReset, PortGate, PortAccept, PortDeferred, RequestLine,
         RequestEnvelope, RequestCancel, RequestSenderIn, RequestHangup, RequestNone,
         ReadBody, ReadEol, ReadCancel, LineEnds, MotionEnds, TakeCancel, ClientCloses,
         vars
    <2> QED BY <2>1 DEF PortInv, Flags
  <1>2. CASE HookTop
    BY <1>2 DEF HookTop, PortInv, Flags
  <1>3. CASE \E from \in {"net", "local"} : RxAccept(from)
    BY <1>3 DEF RxAccept, RxFlush, DropClient, LineDone, PortInv, Flags
  <1>4. CASE RxHangup
    BY <1>4 DEF RxHangup, RxFlush, DropClient, LineDone, PortInv, Flags
  <1>5. CASE \E byte \in {"b", "n"} : RxByte(byte)
    BY <1>5 DEF RxByte, Overrun, RingFull, PortInv, Flags
  <1>6. CASE RxJogCancel
    BY <1>6 DEF RxJogCancel, RxFlush, DropClient, LineDone, PortInv, Flags
  <1>7. CASE RequestSenderOut
    BY <1>7 DEF RequestSenderOut, RxFlush, DropClient, LineDone, PortInv, Flags
  <1>8. CASE TakeReset \/ Restart
    BY <1>8 DEF TakeReset, Restart, RxFlush, LineDone, PortInv, Flags
  <1> QED
    BY <1>1, <1>2, <1>3, <1>4, <1>5, <1>6, <1>7, <1>8 DEF Next, Thread, Rx, Port, Core,
       CoreStep

\* The flags of the reader.
LEMMA ReadFlags ==
    ASSUME PortInv, [Next]_vars
    PROVE  /\ read_midline' \in BOOLEAN /\ sender_line_open' \in BOOLEAN
           /\ keep_out' \in BOOLEAN /\ orphan' \in BOOLEAN
  <1>1. CASE \/ UNCHANGED vars
             \/ HookTop \/ RxQuiet \/ (\E byte \in {"b", "n"} : RxByte(byte)) \/ RxReset
             \/ PortGate \/ (\E knock \in BOOLEAN : PortAccept(knock)) \/ PortDeferred
             \/ (\E op \in {"jog", "command", "tray"} : RequestLine(op))
             \/ (\E open \in BOOLEAN : RequestEnvelope(open)) \/ RequestCancel
             \/ RequestHangup \/ RequestNone \/ MotionEnds \/ TakeCancel \/ ClientCloses
    <2>1. UNCHANGED <<read_midline, sender_line_open, keep_out, orphan>>
      BY <1>1 DEF HookTop, RxQuiet, RxByte, RxReset, PortGate, PortAccept, PortDeferred,
         RequestLine, RequestEnvelope, RequestCancel, RequestHangup, RequestNone,
         MotionEnds, TakeCancel, ClientCloses, vars
    <2> QED BY <2>1 DEF PortInv, Flags
  <1>2. CASE \E from \in {"net", "local"} : RxAccept(from)
    BY <1>2 DEF RxAccept, RxFlush, DropClient, LineDone, PortInv, Flags
  <1>3. CASE RxHangup
    BY <1>3 DEF RxHangup, RxFlush, DropClient, LineDone, PortInv, Flags
  <1>4. CASE RxJogCancel
    BY <1>4 DEF RxJogCancel, RxFlush, DropClient, LineDone, PortInv, Flags
  <1>5. CASE RequestSenderOut
    BY <1>5 DEF RequestSenderOut, RxFlush, DropClient, LineDone, PortInv, Flags
  <1>6. CASE RequestSenderIn
    BY <1>6 DEF RequestSenderIn, PortInv, Flags
  <1>7. CASE ReadBody
    BY <1>7 DEF ReadBody, InCore, Source, PortInv, Flags
  <1>8. CASE ReadEol
    BY <1>8 DEF ReadEol, InCore, Source, PortInv, Flags
  <1>9. CASE ReadCancel
    BY <1>9 DEF ReadCancel, InCore, PortInv, Flags
  <1>10. CASE \E ok, jogs \in BOOLEAN : LineEnds(ok, jogs)
    BY <1>10 DEF LineEnds, InCore, StatusMessage, LineDone, PortInv, Flags
  <1>11. CASE TakeReset \/ Restart
    BY <1>11 DEF TakeReset, Restart, RxFlush, LineDone, PortInv, Flags
  <1> QED
    BY <1>1, <1>2, <1>3, <1>4, <1>5, <1>6, <1>7, <1>8, <1>9, <1>10, <1>11 DEF Next,
       Thread, Rx, Port, Core, CoreStep

\* The flags of the injected line.
LEMMA InjFlags ==
    ASSUME PortInv, [Next]_vars
    PROVE  /\ inj_active' \in BOOLEAN /\ inj_status_due' \in BOOLEAN
  <1>1. CASE \/ UNCHANGED vars
             \/ HookTop \/ RxQuiet \/ (\E byte \in {"b", "n"} : RxByte(byte)) \/ RxReset
             \/ PortGate \/ (\E knock \in BOOLEAN : PortAccept(knock))
             \/ (\E open \in BOOLEAN : RequestEnvelope(open)) \/ RequestCancel
             \/ RequestSenderIn \/ RequestHangup \/ RequestNone \/ ReadBody \/ ReadCancel
             \/ MotionEnds \/ TakeCancel \/ ClientCloses
    <2>1. UNCHANGED <<inj_active, inj_status_due>>
      BY <1>1 DEF HookTop, RxQuiet, RxByte, RxReset, PortGate, PortAccept,
         RequestEnvelope, RequestCancel, RequestSenderIn, RequestHangup, RequestNone,
         ReadBody, ReadCancel, MotionEnds, TakeCancel, ClientCloses, vars
    <2> QED BY <2>1 DEF PortInv, Flags
  <1>2. CASE \E from \in {"net", "local"} : RxAccept(from)
    BY <1>2 DEF RxAccept, RxFlush, DropClient, LineDone, PortInv, Flags
  <1>3. CASE RxHangup
    BY <1>3 DEF RxHangup, RxFlush, DropClient, LineDone, PortInv, Flags
  <1>4. CASE RxJogCancel
    BY <1>4 DEF RxJogCancel, RxFlush, DropClient, LineDone, PortInv, Flags
  <1>5. CASE PortDeferred
    BY <1>5 DEF PortDeferred, CanInject, Inject, ReadsRequest, PortInv, Flags
  <1>6. CASE \E op \in {"jog", "command", "tray"} : RequestLine(op)
    BY <1>6 DEF RequestLine, SubmitLine, CanInject, Inject, PortInv, Flags
  <1>7. CASE RequestSenderOut
    BY <1>7 DEF RequestSenderOut, RxFlush, DropClient, LineDone, PortInv, Flags
  <1>8. CASE ReadEol
    BY <1>8 DEF ReadEol, InCore, Source, PortInv, Flags
  <1>9. CASE \E ok, jogs \in BOOLEAN : LineEnds(ok, jogs)
    BY <1>9 DEF LineEnds, InCore, StatusMessage, LineDone, PortInv, Flags
  <1>10. CASE TakeReset \/ Restart
    BY <1>10 DEF TakeReset, Restart, RxFlush, LineDone, PortInv, Flags
  <1> QED
    BY <1>1, <1>2, <1>3, <1>4, <1>5, <1>6, <1>7, <1>8, <1>9, <1>10 DEF Next, Thread, Rx,
       Port, Core, CoreStep

\* The flags of the port's work.
LEMMA PortFlags ==
    ASSUME PortInv, [Next]_vars
    PROVE  /\ awaiting' \in BOOLEAN /\ awaiting_jog' \in BOOLEAN /\ port_jog' \in BOOLEAN
           /\ cancel_sent' \in BOOLEAN /\ tray_want' \in BOOLEAN
  <1>1. CASE \/ UNCHANGED vars
             \/ HookTop \/ RxQuiet \/ (\E byte \in {"b", "n"} : RxByte(byte)) \/ RxReset
             \/ (\E open \in BOOLEAN : RequestEnvelope(open)) \/ RequestSenderIn
             \/ RequestNone \/ ReadBody \/ ReadEol \/ ReadCancel \/ MotionEnds
             \/ TakeCancel \/ ClientCloses
    <2>1. UNCHANGED <<awaiting, awaiting_jog, port_jog, cancel_sent, tray_want>>
      BY <1>1 DEF HookTop, RxQuiet, RxByte, RxReset, RequestEnvelope, RequestSenderIn,
         RequestNone, ReadBody, ReadEol, ReadCancel, MotionEnds, TakeCancel, ClientCloses,
         vars
    <2> QED BY <2>1 DEF PortInv, Flags
  <1>2. CASE \E from \in {"net", "local"} : RxAccept(from)
    BY <1>2 DEF RxAccept, RxFlush, DropClient, LineDone, PortInv, Flags
  <1>3. CASE RxHangup
    BY <1>3 DEF RxHangup, RxFlush, DropClient, LineDone, PortInv, Flags
  <1>4. CASE RxJogCancel
    BY <1>4 DEF RxJogCancel, RxFlush, DropClient, LineDone, PortInv, Flags
  <1>5. CASE PortGate
    BY <1>5 DEF PortGate, CancelPortJog, HoldAfterJog, ClosesEnvelope, PortInv, Flags
  <1>6. CASE \E knock \in BOOLEAN : PortAccept(knock)
    BY <1>6 DEF PortAccept, ClientDropped, CancelPortJog, ReadsRequest, PortInv, Flags
  <1>7. CASE PortDeferred
    BY <1>7 DEF PortDeferred, CanInject, Inject, ReadsRequest, PortInv, Flags
  <1>8. CASE \E op \in {"jog", "command", "tray"} : RequestLine(op)
    BY <1>8 DEF RequestLine, SubmitLine, CanInject, Inject, PortInv, Flags
  <1>9. CASE RequestCancel
    BY <1>9 DEF RequestCancel, CancelPortJog, PortInv, Flags
  <1>10. CASE RequestSenderOut
    BY <1>10 DEF RequestSenderOut, RxFlush, DropClient, LineDone, PortInv, Flags
  <1>11. CASE RequestHangup
    BY <1>11 DEF RequestHangup, ClientDropped, CancelPortJog, PortInv, Flags
  <1>12. CASE \E ok, jogs \in BOOLEAN : LineEnds(ok, jogs)
    BY <1>12 DEF LineEnds, InCore, StatusMessage, LineDone, PortInv, Flags
  <1>13. CASE TakeReset \/ Restart
    BY <1>13 DEF TakeReset, Restart, RxFlush, LineDone, PortInv, Flags
  <1> QED
    BY <1>1, <1>2, <1>3, <1>4, <1>5, <1>6, <1>7, <1>8, <1>9, <1>10, <1>11, <1>12, <1>13
       DEF Next, Thread, Rx, Port, Core, CoreStep

\* The flags of the gate.
LEMMA GateFlags ==
    ASSUME PortInv, [Next]_vars
    PROVE  /\ hold_sender' \in BOOLEAN /\ envelope_hold' \in BOOLEAN
           /\ envelope_is_open' \in BOOLEAN
  <1>1. CASE \/ UNCHANGED vars
             \/ HookTop \/ RxQuiet \/ (\E byte \in {"b", "n"} : RxByte(byte)) \/ RxReset
             \/ PortDeferred
             \/ (\E op \in {"jog", "command", "tray"} : RequestLine(op)) \/ RequestCancel
             \/ RequestSenderIn \/ RequestNone \/ ReadBody \/ ReadEol
             \/ ReadCancel \/ MotionEnds \/ TakeCancel \/ ClientCloses
    <2>1. UNCHANGED <<hold_sender, envelope_hold, envelope_is_open>>
      BY <1>1 DEF HookTop, RxQuiet, RxByte, RxReset,
         PortDeferred, RequestLine, RequestCancel, RequestSenderIn,
         RequestNone, ReadBody, ReadEol, ReadCancel, MotionEnds, TakeCancel, ClientCloses,
         vars
    <2> QED BY <2>1 DEF PortInv, Flags
  <1>2. CASE PortGate
    BY <1>2 DEF PortGate, CancelPortJog, HoldAfterJog, ClosesEnvelope, PortInv, Flags
  <1>3. CASE \E knock \in BOOLEAN : PortAccept(knock)
    BY <1>3 DEF PortAccept, ClientDropped, CancelPortJog, ReadsRequest, PortInv, Flags
  <1>4. CASE \E open \in BOOLEAN : RequestEnvelope(open)
    BY <1>4 DEF RequestEnvelope, PortInv, Flags
  <1>5. CASE RequestHangup
    BY <1>5 DEF RequestHangup, ClientDropped, CancelPortJog, PortInv, Flags
  <1>6. CASE \E ok, jogs \in BOOLEAN : LineEnds(ok, jogs)
    BY <1>6 DEF LineEnds, InCore, StatusMessage, LineDone, PortInv, Flags
  <1>7. CASE TakeReset \/ Restart
    BY <1>7 DEF TakeReset, Restart, RxFlush, LineDone, PortInv, Flags
  <1>8. CASE \E from \in {"net", "local"} : RxAccept(from)
    BY <1>8 DEF RxAccept, RxFlush, DropClient, LineDone, PortInv, Flags
  <1>9. CASE RxHangup \/ RxJogCancel \/ RequestSenderOut
    BY <1>9 DEF RxHangup, RxJogCancel, RequestSenderOut, RxFlush, DropClient, LineDone,
       PortInv, Flags
  <1> QED
    BY <1>1, <1>2, <1>3, <1>4, <1>5, <1>6, <1>7, <1>8, <1>9 DEF Next, Thread, Rx, Port, Core, CoreStep

\* The flags of the core.
LEMMA CoreFlags ==
    ASSUME PortInv, [Next]_vars
    PROVE  /\ exec_cancel' \in BOOLEAN /\ exec_reset' \in BOOLEAN /\ hooked' \in BOOLEAN
           /\ spoiled' \in BOOLEAN /\ torn' \in BOOLEAN
  <1>1. CASE \/ UNCHANGED vars
             \/ RxQuiet \/ (\E byte \in {"b", "n"} : RxByte(byte)) \/ PortDeferred
             \/ (\E op \in {"jog", "command", "tray"} : RequestLine(op))
             \/ (\E open \in BOOLEAN : RequestEnvelope(open))
             \/ RequestSenderIn \/ RequestNone \/ ReadBody \/ MotionEnds \/ ClientCloses
    <2>1. UNCHANGED <<exec_cancel, exec_reset, hooked, spoiled, torn>>
      BY <1>1 DEF RxQuiet, RxByte, PortDeferred, RequestLine, RequestEnvelope, RequestSenderIn, RequestNone,
         ReadBody, MotionEnds, ClientCloses, vars
    <2> QED BY <2>1 DEF PortInv, Flags
  <1>2. CASE HookTop
    BY <1>2 DEF HookTop, PortInv, Flags
  <1>3. CASE RxReset
    BY <1>3 DEF RxReset, PortInv, Flags
  <1>4. CASE PortGate
    BY <1>4 DEF PortGate, CancelPortJog, HoldAfterJog, ClosesEnvelope, PortInv, Flags
  <1>5. CASE \E knock \in BOOLEAN : PortAccept(knock)
    BY <1>5 DEF PortAccept, ClientDropped, CancelPortJog, ReadsRequest, PortInv, Flags
  <1>6. CASE RequestCancel
    BY <1>6 DEF RequestCancel, CancelPortJog, PortInv, Flags
  <1>7. CASE RequestHangup
    BY <1>7 DEF RequestHangup, ClientDropped, CancelPortJog, PortInv, Flags
  <1>8. CASE ReadEol
    BY <1>8 DEF ReadEol, InCore, Source, PortInv, Flags
  <1>9. CASE ReadCancel
    BY <1>9 DEF ReadCancel, InCore, PortInv, Flags
  <1>10. CASE \E ok, jogs \in BOOLEAN : LineEnds(ok, jogs)
    BY <1>10 DEF LineEnds, InCore, StatusMessage, LineDone, PortInv, Flags
  <1>11. CASE TakeCancel
    BY <1>11 DEF TakeCancel, PortInv, Flags
  <1>12. CASE TakeReset \/ Restart
    BY <1>12 DEF TakeReset, Restart, RxFlush, LineDone, PortInv, Flags
  <1>13. CASE \E from \in {"net", "local"} : RxAccept(from)
    BY <1>13 DEF RxAccept, RxFlush, DropClient, LineDone, PortInv, Flags
  <1>14. CASE RxHangup \/ RxJogCancel \/ RequestSenderOut
    BY <1>14 DEF RxHangup, RxJogCancel, RequestSenderOut, RxFlush, DropClient, LineDone,
       PortInv, Flags
  <1> QED
    BY <1>1, <1>2, <1>3, <1>4, <1>5, <1>6, <1>7, <1>8, <1>9, <1>10, <1>11, <1>12, <1>13,
       <1>14 DEF Next,
       Thread, Rx, Port, Core, CoreStep

\* What a flush does to the client it may drop.
LEMMA FlushKinds ==
    ASSUME Kinds, NEW left, RxFlush(left)
    PROVE  /\ port_fd' \in {"none", "open", "hungup"}
           /\ deferred' \in {"none", "jog", "command", "tray"} /\ inj_left' \in 0..2
  <1>1. CASE inj_active
    BY <1>1 DEF RxFlush, LineDone, Kinds
  <1>2. CASE ~inj_active
    BY <1>2 DEF RxFlush, Kinds
  <1> QED BY <1>1, <1>2

\* Everything else but the ring.
LEMMA KindsStep == ASSUME PortInv, [Next]_vars PROVE Kinds'
  <1>1. CASE \/ HookTop \/ RxQuiet \/ (\E byte \in {"b", "n"} : RxByte(byte)) \/ RxReset
             \/ PortGate \/ (\E open \in BOOLEAN : RequestEnvelope(open)) \/ RequestCancel
             \/ RequestSenderIn \/ RequestNone
    <2>1. /\ UNCHANGED <<sender, port_fd, deferred, st, running, buffered, inj_left>>
          /\ pc' \in {"core", "rx", "gate", "client"}
      BY <1>1 DEF HookTop, RxQuiet, RxByte, RxReset, PortGate, RequestEnvelope,
         RequestCancel, RequestSenderIn, RequestNone, vars
    <2> QED BY <2>1 DEF PortInv, Kinds
  <1>2. CASE \E from \in {"net", "local"} : RxAccept(from)
    <2>1. CASE sender = "none"
      BY <1>2, <2>1 DEF RxAccept, PortInv, Kinds
    <2>2. CASE sender # "none"
      BY <1>2, <2>2, FlushKinds DEF RxAccept, DropClient, PortInv, Kinds
    <2> QED BY <2>1, <2>2
  <1>3. CASE RxHangup
    BY <1>3 DEF RxHangup, RxFlush, DropClient, LineDone, PortInv, Kinds
  <1>4. CASE RxJogCancel
    BY <1>4 DEF RxJogCancel, RxFlush, DropClient, LineDone, PortInv, Kinds
  <1>5. CASE \E knock \in BOOLEAN : PortAccept(knock)
    BY <1>5 DEF PortAccept, ClientDropped, CancelPortJog, ReadsRequest, PortInv, Kinds
  <1>6. CASE PortDeferred
    BY <1>6 DEF PortDeferred, CanInject, Inject, ReadsRequest, PortInv, Kinds
  <1>7. CASE \E op \in {"jog", "command", "tray"} : RequestLine(op)
    BY <1>7 DEF RequestLine, SubmitLine, CanInject, Inject, PortInv, Kinds
  <1>8. CASE RequestSenderOut
    <2>1. CASE sender = "net"
      BY <1>8, <2>1, FlushKinds DEF RequestSenderOut, DropClient, PortInv, Kinds
    <2>2. CASE sender # "net"
      BY <1>8, <2>2 DEF RequestSenderOut, PortInv, Kinds
    <2> QED BY <2>1, <2>2
  <1>9. CASE RequestHangup
    BY <1>9 DEF RequestHangup, ClientDropped, CancelPortJog, PortInv, Kinds
  <1>10. CASE ReadBody
    BY <1>10 DEF ReadBody, InCore, Source, PortInv, Kinds
  <1>11. CASE ReadEol
    BY <1>11 DEF ReadEol, InCore, Source, PortInv, Kinds
  <1>12. CASE ReadCancel
    BY <1>12 DEF ReadCancel, InCore, PortInv, Kinds
  <1>13. CASE \E ok, jogs \in BOOLEAN : LineEnds(ok, jogs)
    BY <1>13 DEF LineEnds, InCore, StatusMessage, LineDone, PortInv, Kinds
  <1>14. CASE MotionEnds
    BY <1>14 DEF MotionEnds, InCore, PortInv, Kinds
  <1>15. CASE TakeCancel
    BY <1>15 DEF TakeCancel, PortInv, Kinds
  <1>16. CASE TakeReset \/ Restart
    <2>1. CASE TakeReset
      BY <2>1 DEF TakeReset, PortInv, Kinds
    <2>2. CASE Restart
      BY <2>2, FlushKinds DEF Restart, PortInv, Kinds
    <2> QED BY <1>16, <2>1, <2>2
  <1>17. CASE ClientCloses
    BY <1>17 DEF ClientCloses, PortInv, Kinds
  <1>18. CASE UNCHANGED vars
    BY <1>18 DEF vars, PortInv, Kinds
  <1> QED
    BY <1>1, <1>2, <1>3, <1>4, <1>5, <1>6, <1>7, <1>8, <1>9, <1>10, <1>11, <1>12, <1>13,
       <1>14, <1>15, <1>16, <1>17, <1>18 DEF Next, Thread, Rx, Port, Core, CoreStep

\* The ring.
LEMMA RingStep == ASSUME PortInv, [Next]_vars PROVE RingType'
  <1>1. CASE \/ UNCHANGED vars
             \/ HookTop \/ RxQuiet \/ RxReset \/ PortGate
             \/ (\E knock \in BOOLEAN : PortAccept(knock))
             \/ (\E open \in BOOLEAN : RequestEnvelope(open)) \/ RequestCancel
             \/ RequestSenderIn \/ RequestHangup \/ RequestNone
             \/ (\E ok, jogs \in BOOLEAN : LineEnds(ok, jogs)) \/ MotionEnds \/ TakeCancel
             \/ ClientCloses
    <2>1. ring' = ring
      BY <1>1 DEF HookTop, RxQuiet, RxReset, PortGate, PortAccept, RequestEnvelope,
         RequestCancel, RequestSenderIn, RequestHangup, RequestNone, LineEnds, MotionEnds,
         TakeCancel, ClientCloses, vars
    <2> QED BY <2>1 DEF PortInv, RingType
  <1>2. CASE \E from \in {"net", "local"} : RxAccept(from)
    <2>1. ring' = <<>> \/ ring' = ring
      BY <1>2 DEF RxAccept, RxFlush, DropClient
    <2>2. <<>> \in Seq({"b", "n", "c"}) /\ Len(<<>>) <= RingCap
      OBVIOUS
    <2>3. CASE ring' = <<>>
      BY <2>2, <2>3 DEF RingType
    <2>4. CASE ring' = ring
      BY <2>4 DEF PortInv, RingType
    <2> QED BY <2>1, <2>3, <2>4
  <1>3. CASE RxHangup
    BY <1>3 DEF RxHangup, RxFlush, DropClient, LineDone, PortInv, RingType
  <1>4. CASE \E byte \in {"b", "n"} : RxByte(byte)
    BY <1>4, ByteForm DEF PortInv
  <1>5. CASE RxJogCancel
    BY <1>5 DEF RxJogCancel, RxFlush, DropClient, LineDone, PortInv, RingType
  <1>6. CASE PortDeferred
    <2>1. CASE Inject
      BY <2>1, InjectForm
    <2>2. CASE ring' = ring
      BY <2>2 DEF PortInv, RingType
    <2> QED BY <1>6, <2>1, <2>2 DEF PortDeferred
  <1>7. CASE \E op \in {"jog", "command", "tray"} : RequestLine(op)
    <2>1. CASE Inject
      BY <2>1, InjectForm
    <2>2. CASE ring' = ring
      BY <2>2 DEF PortInv, RingType
    <2> QED BY <1>7, <2>1, <2>2 DEF RequestLine, SubmitLine
  <1>8. CASE RequestSenderOut
    <2>1. ring' = <<>> \/ ring' = ring
      BY <1>8 DEF RequestSenderOut, RxFlush, DropClient
    <2>2. <<>> \in Seq({"b", "n", "c"}) /\ Len(<<>>) <= RingCap
      OBVIOUS
    <2>3. CASE ring' = <<>>
      BY <2>2, <2>3 DEF RingType
    <2>4. CASE ring' = ring
      BY <2>4 DEF PortInv, RingType
    <2> QED BY <2>1, <2>3, <2>4
  <1>9. CASE ReadBody
    BY <1>9 DEF ReadBody, InCore, Source, PortInv, RingType
  <1>10. CASE ReadEol
    BY <1>10 DEF ReadEol, InCore, Source, PortInv, RingType
  <1>11. CASE ReadCancel
    BY <1>11 DEF ReadCancel, InCore, PortInv, RingType
  <1>12. CASE TakeReset \/ Restart
    <2>1. CASE TakeReset
      BY <2>1 DEF TakeReset, PortInv, RingType
    <2>2. CASE Restart
      BY <2>2 DEF Restart, RxFlush, RingType
    <2> QED BY <1>12, <2>1, <2>2
  <1> QED
    BY <1>1, <1>2, <1>3, <1>4, <1>5, <1>6, <1>7, <1>8, <1>9, <1>10, <1>11, <1>12 DEF Next,
       Thread, Rx, Port, Core, CoreStep

\* The gate: a jog that ends and an envelope that closes each open it, unless the
\* other still stands.
LEMMA GateStep == ASSUME PortInv, [Next]_vars PROVE GateExact'
  <1>1. CASE \/ UNCHANGED vars
             \/ HookTop \/ RxQuiet \/ (\E byte \in {"b", "n"} : RxByte(byte)) \/ RxReset
             \/ (\E knock \in BOOLEAN : PortAccept(knock)) \/ PortDeferred
             \/ (\E op \in {"jog", "command", "tray"} : RequestLine(op))
             \/ (\E open \in BOOLEAN : RequestEnvelope(open)) \/ RequestCancel
             \/ RequestSenderIn \/ RequestHangup \/ RequestNone \/ ReadBody \/ ReadEol
             \/ ReadCancel \/ MotionEnds \/ TakeCancel \/ ClientCloses
    <2>1. UNCHANGED <<hold_sender, port_jog, envelope_hold>>
      BY <1>1 DEF HookTop, RxQuiet, RxByte, RxReset, PortAccept, PortDeferred,
         RequestLine, RequestEnvelope, RequestCancel, RequestSenderIn, RequestHangup,
         RequestNone, ReadBody, ReadEol, ReadCancel, MotionEnds, TakeCancel, ClientCloses,
         vars
    <2> QED BY <2>1 DEF PortInv, GateExact
  <1>2. CASE \E from \in {"net", "local"} : RxAccept(from)
    BY <1>2 DEF RxAccept, RxFlush, DropClient, LineDone, PortInv, Flags, GateExact
  <1>3. CASE RxHangup
    BY <1>3 DEF RxHangup, RxFlush, DropClient, LineDone, PortInv, Flags, GateExact
  <1>4. CASE RxJogCancel
    BY <1>4 DEF RxJogCancel, RxFlush, DropClient, LineDone, PortInv, Flags, GateExact
  <1>5. CASE PortGate
    BY <1>5 DEF PortGate, CancelPortJog, HoldAfterJog, ClosesEnvelope, PortInv, Flags,
       GateExact
  <1>6. CASE RequestSenderOut
    BY <1>6 DEF RequestSenderOut, RxFlush, DropClient, LineDone, PortInv, Flags, GateExact
  <1>7. CASE \E ok, jogs \in BOOLEAN : LineEnds(ok, jogs)
    BY <1>7 DEF LineEnds, InCore, StatusMessage, LineDone, PortInv, Flags, GateExact
  <1>8. CASE TakeReset \/ Restart
    BY <1>8 DEF TakeReset, Restart, RxFlush, LineDone, PortInv, Flags, GateExact
  <1> QED
    BY <1>1, <1>2, <1>3, <1>4, <1>5, <1>6, <1>7, <1>8 DEF Next, Thread, Rx, Port, Core,
       CoreStep

\* The injected line.
LEMMA FrontStep == ASSUME PortInv, [Next]_vars PROVE InjectedFront'
  <1>1. CASE \/ UNCHANGED vars
             \/ HookTop \/ RxQuiet \/ RxReset \/ PortGate
             \/ (\E knock \in BOOLEAN : PortAccept(knock))
             \/ (\E open \in BOOLEAN : RequestEnvelope(open)) \/ RequestCancel
             \/ RequestSenderIn \/ RequestHangup \/ RequestNone \/ MotionEnds \/ TakeCancel
             \/ ClientCloses
    <2>1. UNCHANGED <<ring, inj_left, inj_active, inj_status_due>>
      BY <1>1 DEF HookTop, RxQuiet, RxReset, PortGate, PortAccept, RequestEnvelope,
         RequestCancel, RequestSenderIn, RequestHangup, RequestNone, MotionEnds,
         TakeCancel, ClientCloses, vars
    <2> QED BY <2>1 DEF PortInv, InjectedFront
  <1>2. CASE \E from \in {"net", "local"} : RxAccept(from)
    BY <1>2 DEF RxAccept, RxFlush, DropClient, LineDone, PortInv, Flags, Kinds, RingType,
       InjectedFront
  <1>3. CASE RxHangup
    BY <1>3 DEF RxHangup, RxFlush, DropClient, LineDone, PortInv, Flags, Kinds, RingType,
       InjectedFront
  <1>4. CASE \E byte \in {"b", "n"} : RxByte(byte)
    <2>1. PICK byte \in {"b", "n"} : RxByte(byte)
      BY <1>4
    <2>2. inj_left > 0 => inj_left \in 1..Len(ring) /\ 1 \in 1..Len(ring)
      BY DEF PortInv, Kinds, RingType, InjectedFront
    <2>3. inj_left > 0 => /\ Len(ring') >= inj_left
                          /\ ring'[inj_left] = ring[inj_left] /\ ring'[1] = ring[1]
      <3>1. CASE UNCHANGED ring
        BY <2>2, <3>1 DEF PortInv, InjectedFront
      <3>2. CASE /\ Len(ring') = Len(ring) + 1
                 /\ \A i \in 1..Len(ring) : ring'[i] = ring[i]
        BY <2>2, <3>2 DEF PortInv, InjectedFront, RingType
      <3>3. CASE /\ \A i \in 1..Len(ring') : ring'[i] = ring[i]
                 /\ \A i \in 1..Len(ring) : ring[i] = "n" => i <= Len(ring')
        <4>1. inj_left > 0 => inj_left <= Len(ring')
          BY <2>2, <3>3 DEF PortInv, InjectedFront
        <4>2. Len(ring') \in Nat /\ inj_left \in 0..2
          BY <2>1, ByteForm DEF PortInv, Kinds, RingType
        <4> QED BY <3>3, <4>1, <4>2
      <3> QED BY <2>1, <3>1, <3>2, <3>3, ByteForm DEF PortInv
    <2> QED BY <2>1, <2>3, ByteForm DEF PortInv, InjectedFront
  <1>5. CASE RxJogCancel
    BY <1>5 DEF RxJogCancel, RxFlush, DropClient, LineDone, PortInv, Flags, Kinds, RingType,
       InjectedFront
  <1>6. CASE PortDeferred
    <2>1. CASE Inject
      BY <2>1, InjectForm DEF InjectedFront
    <2>2. CASE UNCHANGED <<ring, injVars>>
      BY <2>2 DEF PortInv, InjectedFront
    <2> QED BY <1>6, <2>1, <2>2 DEF PortDeferred
  <1>7. CASE \E op \in {"jog", "command", "tray"} : RequestLine(op)
    <2>1. CASE Inject
      BY <2>1, InjectForm DEF InjectedFront
    <2>2. CASE UNCHANGED <<ring, injVars>>
      BY <2>2 DEF PortInv, InjectedFront
    <2> QED BY <1>7, <2>1, <2>2 DEF RequestLine, SubmitLine
  <1>8. CASE RequestSenderOut
    BY <1>8 DEF RequestSenderOut, RxFlush, DropClient, LineDone, PortInv, Flags, Kinds, RingType,
       InjectedFront
  <1>9. CASE ReadBody
    BY <1>9 DEF ReadBody, InCore, Source, PortInv, Flags, Kinds, RingType, InjectedFront
  <1>10. CASE ReadEol
    BY <1>10 DEF ReadEol, InCore, Source, PortInv, Flags, Kinds, RingType, InjectedFront
  <1>11. CASE ReadCancel
    BY <1>11 DEF ReadCancel, InCore, PortInv, Flags, Kinds, RingType, InjectedFront
  <1>12. CASE \E ok, jogs \in BOOLEAN : LineEnds(ok, jogs)
    BY <1>12 DEF LineEnds, InCore, StatusMessage, LineDone, PortInv, Flags, Kinds,
       RingType, InjectedFront
  <1>13. CASE TakeReset \/ Restart
    BY <1>13 DEF TakeReset, Restart, RxFlush, LineDone, PortInv, Flags, Kinds, RingType,
       InjectedFront
  <1> QED
    BY <1>1, <1>2, <1>3, <1>4, <1>5, <1>6, <1>7, <1>8, <1>9, <1>10, <1>11, <1>12, <1>13
       DEF Next, Thread, Rx, Port, Core, CoreStep

\* The port's work.
LEMMA WorkStep == ASSUME PortInv, [Next]_vars PROVE PortWork'
  <1>1. CASE \/ HookTop \/ RxQuiet \/ (\E byte \in {"b", "n"} : RxByte(byte)) \/ RxReset
             \/ PortGate \/ (\E open \in BOOLEAN : RequestEnvelope(open)) \/ RequestCancel
             \/ RequestSenderIn \/ RequestNone \/ ReadBody \/ ReadEol \/ ReadCancel
             \/ MotionEnds \/ TakeCancel
    <2>1. /\ UNCHANGED <<inj_active, awaiting, port_fd, deferred>>
          /\ pc' \in {"core", "rx", "gate", "client"}
      BY <1>1 DEF HookTop, RxQuiet, RxByte, RxReset, PortGate, RequestEnvelope,
         RequestCancel, RequestSenderIn, RequestNone, ReadBody, ReadEol, ReadCancel,
         MotionEnds, TakeCancel, vars, InCore
    <2> QED BY <2>1 DEF PortInv, PortWork
  <1>2. CASE \E from \in {"net", "local"} : RxAccept(from)
    BY <1>2 DEF RxAccept, RxFlush, DropClient, LineDone, PortInv, Flags, Kinds, InjectedFront,
       PortWork
  <1>3. CASE RxHangup
    BY <1>3 DEF RxHangup, RxFlush, DropClient, LineDone, PortInv, Flags, Kinds, InjectedFront,
       PortWork
  <1>4. CASE RxJogCancel
    BY <1>4 DEF RxJogCancel, RxFlush, DropClient, LineDone, PortInv, Flags, Kinds, InjectedFront,
       PortWork
  <1>5. CASE \E knock \in BOOLEAN : PortAccept(knock)
    BY <1>5 DEF PortAccept, ClientDropped, CancelPortJog, ReadsRequest, PortInv, Flags,
       Kinds, InjectedFront, PortWork
  <1>6. CASE PortDeferred
    <2>1. CASE Inject
      BY <1>6, <2>1 DEF PortDeferred, Inject, ReadsRequest, PortInv, Kinds, PortWork
    <2>2. CASE UNCHANGED <<ring, injVars, awaiting>>
      BY <1>6, <2>2 DEF PortDeferred, ReadsRequest, PortInv, Kinds, PortWork
    <2> QED BY <1>6, <2>1, <2>2 DEF PortDeferred
  <1>7. CASE \E op \in {"jog", "command", "tray"} : RequestLine(op)
    <2>1. CASE Inject /\ awaiting' = TRUE /\ UNCHANGED deferred
      BY <1>7, <2>1 DEF RequestLine, Inject, PortInv, Kinds, PortWork
    <2>2. CASE UNCHANGED <<injVars, awaiting>>
      BY <1>7, <2>2 DEF RequestLine, PortInv, Kinds, PortWork
    <2> QED BY <1>7, <2>1, <2>2 DEF RequestLine, SubmitLine
  <1>8. CASE RequestSenderOut
    BY <1>8 DEF RequestSenderOut, RxFlush, DropClient, LineDone, PortInv, Flags, Kinds,
       InjectedFront, PortWork
  <1>9. CASE RequestHangup
    BY <1>9 DEF RequestHangup, ClientDropped, CancelPortJog, PortInv, Flags, Kinds,
       InjectedFront, PortWork
  <1>10. CASE \E ok, jogs \in BOOLEAN : LineEnds(ok, jogs)
    BY <1>10 DEF LineEnds, InCore, StatusMessage, LineDone, PortInv, Flags, Kinds,
       InjectedFront, PortWork
  <1>11. CASE TakeReset \/ Restart
    BY <1>11 DEF TakeReset, Restart, RxFlush, LineDone, PortInv, Flags, Kinds, InjectedFront,
       PortWork
  <1>12. CASE ClientCloses
    BY <1>12 DEF ClientCloses, PortInv, Flags, Kinds, InjectedFront, PortWork
  <1>13. CASE UNCHANGED vars
    BY <1>13 DEF vars, PortInv, PortWork
  <1> QED
    BY <1>1, <1>2, <1>3, <1>4, <1>5, <1>6, <1>7, <1>8, <1>9, <1>10, <1>11, <1>12, <1>13
       DEF Next, Thread, Rx, Port, Core, CoreStep

\* The jogs.
LEMMA JogsStep == ASSUME PortInv, [Next]_vars PROVE PortJogs'
  <1>1. CASE \/ UNCHANGED vars
             \/ RxQuiet \/ (\E byte \in {"b", "n"} : RxByte(byte)) \/ RxReset
             \/ (\E open \in BOOLEAN : RequestEnvelope(open)) \/ RequestSenderIn
             \/ RequestNone \/ ReadBody \/ ReadCancel
    BY <1>1 DEF RxQuiet, RxByte, RxReset, RequestEnvelope, RequestSenderIn, RequestNone,
       ReadBody, ReadCancel, vars, PortInv, Flags, Kinds, InjectedFront, PortWork,
       PortJogs
  <1>2. CASE HookTop
    BY <1>2 DEF HookTop, PortInv, Flags, Kinds, InjectedFront, PortWork, PortJogs
  <1>3. CASE \E from \in {"net", "local"} : RxAccept(from)
    BY <1>3 DEF RxAccept, RxFlush, DropClient, LineDone, PortInv, Flags, Kinds, InjectedFront,
       PortWork, PortJogs
  <1>4. CASE RxHangup
    BY <1>4 DEF RxHangup, RxFlush, DropClient, LineDone, PortInv, Flags, Kinds, InjectedFront,
       PortWork, PortJogs
  <1>5. CASE RxJogCancel
    BY <1>5 DEF RxJogCancel, RxFlush, DropClient, LineDone, PortInv, Flags, Kinds, InjectedFront,
       PortWork, PortJogs
  <1>6. CASE PortGate
    BY <1>6 DEF PortGate, CancelPortJog, HoldAfterJog, ClosesEnvelope, PortInv, Flags,
       Kinds, InjectedFront, PortWork, PortJogs
  <1>7. CASE \E knock \in BOOLEAN : PortAccept(knock)
    BY <1>7 DEF PortAccept, ClientDropped, CancelPortJog, ReadsRequest, PortInv, Flags,
       Kinds, InjectedFront, PortWork, PortJogs
  <1>8. CASE PortDeferred
    BY <1>8 DEF PortDeferred, CanInject, Inject, ReadsRequest, PortInv, Flags, Kinds,
       InjectedFront, PortWork, PortJogs
  <1>9. CASE \E op \in {"jog", "command", "tray"} : RequestLine(op)
    BY <1>9 DEF RequestLine, SubmitLine, CanInject, Inject, PortInv, Flags, Kinds,
       InjectedFront, PortWork, PortJogs
  <1>10. CASE RequestCancel
    BY <1>10 DEF RequestCancel, CancelPortJog, PortInv, Flags, Kinds, InjectedFront,
       PortWork, PortJogs
  <1>11. CASE RequestSenderOut
    BY <1>11 DEF RequestSenderOut, RxFlush, DropClient, LineDone, PortInv, Flags, Kinds,
       InjectedFront, PortWork, PortJogs
  <1>12. CASE RequestHangup
    BY <1>12 DEF RequestHangup, ClientDropped, CancelPortJog, PortInv, Flags, Kinds,
       InjectedFront, PortWork, PortJogs
  <1>13. CASE ReadEol
    BY <1>13 DEF ReadEol, InCore, Source, PortInv, Flags, Kinds, InjectedFront, PortWork,
       PortJogs
  <1>14. CASE \E ok, jogs \in BOOLEAN : LineEnds(ok, jogs)
    BY <1>14 DEF LineEnds, InCore, StatusMessage, LineDone, PortInv, Flags, Kinds,
       InjectedFront, PortWork, PortJogs
  <1>15. CASE MotionEnds
    BY <1>15 DEF MotionEnds, InCore, PortInv, Flags, Kinds, InjectedFront, PortWork,
       PortJogs
  <1>16. CASE TakeCancel
    BY <1>16 DEF TakeCancel, PortInv, Flags, Kinds, InjectedFront, PortWork, PortJogs
  <1>17. CASE TakeReset \/ Restart
    BY <1>17 DEF TakeReset, Restart, RxFlush, LineDone, PortInv, Flags, Kinds, InjectedFront,
       PortWork, PortJogs
  <1>18. CASE ClientCloses
    BY <1>18 DEF ClientCloses, PortInv, Flags, Kinds, InjectedFront, PortWork, PortJogs
  <1> QED
    BY <1>1, <1>2, <1>3, <1>4, <1>5, <1>6, <1>7, <1>8, <1>9, <1>10, <1>11, <1>12, <1>13,
       <1>14, <1>15, <1>16, <1>17, <1>18 DEF Next, Thread, Rx, Port, Core, CoreStep

\* A fragment of the sender's.
LEMMA FragStep == ASSUME PortInv, [Next]_vars PROVE Fragments'
  <1>1. CASE \/ UNCHANGED vars
             \/ HookTop \/ RxQuiet \/ RxReset \/ PortGate
             \/ (\E knock \in BOOLEAN : PortAccept(knock))
             \/ (\E open \in BOOLEAN : RequestEnvelope(open)) \/ RequestCancel
             \/ RequestSenderIn \/ RequestHangup \/ RequestNone
             \/ (\E ok, jogs \in BOOLEAN : LineEnds(ok, jogs)) \/ MotionEnds \/ TakeCancel
             \/ ClientCloses
    <2>1. UNCHANGED <<ring, buffered, orphan, inj_left, sender_midline, hole>>
      BY <1>1 DEF HookTop, RxQuiet, RxReset, PortGate, PortAccept, RequestEnvelope,
         RequestCancel, RequestSenderIn, RequestHangup, RequestNone, LineEnds, MotionEnds,
         TakeCancel, ClientCloses, vars
    <2> QED BY <2>1 DEF PortInv, Fragments
  <1>2. CASE \E from \in {"net", "local"} : RxAccept(from)
    BY <1>2 DEF RxAccept, RxFlush, DropClient, LineDone, PortInv, Flags, Kinds, RingType,
       InjectedFront, PortWork, Fragments
  <1>3. CASE RxHangup
    BY <1>3 DEF RxHangup, RxFlush, DropClient, LineDone, PortInv, Flags, Kinds, RingType,
       InjectedFront, PortWork, Fragments
  <1>4. CASE \E byte \in {"b", "n"} : RxByte(byte)
    <2>1. PICK byte \in {"b", "n"} : RxByte(byte)
      BY <1>4
    <2>2. CASE UNCHANGED <<ring, sender_midline, hole>>
      BY <2>1, <2>2, ByteForm DEF PortInv, Fragments
    <2>3. CASE /\ Len(ring') = Len(ring) + 1 /\ ring'[Len(ring')] = byte
               /\ sender_midline' = (byte # "n") /\ hole' = hole
      <3>1. ring' # <<>>
        BY <2>1, <2>3, ByteForm DEF PortInv, RingType
      <3> QED BY <2>1, <2>3, <3>1, ByteForm DEF PortInv, Fragments
    <2>4. CASE hole'
      BY <2>1, <2>4, ByteForm DEF PortInv, Fragments
    <2> QED BY <2>1, <2>2, <2>3, <2>4, ByteForm DEF PortInv
  <1>5. CASE RxJogCancel
    BY <1>5 DEF RxJogCancel, RxFlush, DropClient, LineDone, PortInv, Flags, Kinds, RingType,
       InjectedFront, PortWork, Fragments
  <1>6. CASE PortDeferred
    BY <1>6 DEF PortDeferred, CanInject, Inject, ReadsRequest, PortInv, Flags, Kinds,
       RingType, InjectedFront, PortWork, Fragments
  <1>7. CASE \E op \in {"jog", "command", "tray"} : RequestLine(op)
    BY <1>7 DEF RequestLine, SubmitLine, CanInject, Inject, PortInv, Flags, Kinds,
       RingType, InjectedFront, PortWork, Fragments
  <1>8. CASE RequestSenderOut
    BY <1>8 DEF RequestSenderOut, RxFlush, DropClient, LineDone, PortInv, Flags, Kinds, RingType,
       InjectedFront, PortWork, Fragments
  <1>9. CASE ReadBody
    <2>1. /\ ring \in Seq({"b", "n", "c"}) /\ ring # <<>>
          /\ ring' = Tail(ring) /\ ring[1] = "b"
          /\ inj_left \in 0..2 /\ buffered \subseteq {"sender", "port"}
          /\ UNCHANGED <<sender_midline, hole, orphan>>
      BY <1>9 DEF ReadBody, PortInv, Kinds, RingType
    <2>2. /\ Len(ring') = Len(ring) - 1 /\ \A i \in 1..Len(ring') : ring'[i] = ring[i + 1]
          /\ Len(ring) \in Nat \ {0}
      BY <2>1
    <2>3. ring' # <<>> => ring'[Len(ring')] = ring[Len(ring)]
      BY <2>1, <2>2
    <2>4. ring' = <<>> => ring[Len(ring)] = "b"
      <3>1. ring' = <<>> => Len(ring') = 0
        OBVIOUS
      <3> QED BY <2>1, <2>2, <3>1
    <2>5. inj_left = 0 \/ inj_left = 2
      BY <2>1 DEF PortInv, InjectedFront
    <2>6. CASE inj_left = 0
      <3>1. buffered' = buffered \cup {"sender"} /\ inj_left' = 0 /\ ("port" \in buffered => orphan)
        BY <1>9, <2>6 DEF ReadBody, Source, PortInv, Fragments
      <3> QED BY <2>1, <2>3, <2>4, <3>1 DEF PortInv, Fragments
    <2>7. CASE inj_left = 2
      <3>1. buffered' = buffered \cup {"port"} /\ inj_left' = 1
        BY <1>9, <2>7 DEF ReadBody, Source
      <3> QED BY <2>1, <2>3, <2>7, <3>1 DEF PortInv, Fragments
    <2> QED BY <2>5, <2>6, <2>7
  <1>10. CASE ReadEol
    BY <1>10 DEF ReadEol, InCore, Source, PortInv, Flags, Kinds, RingType, InjectedFront,
       PortWork, Fragments
  <1>11. CASE ReadCancel
    BY <1>11 DEF ReadCancel, InCore, PortInv, Flags, Kinds, RingType, InjectedFront,
       PortWork, Fragments
  <1>12. CASE TakeReset \/ Restart
    BY <1>12 DEF TakeReset, Restart, RxFlush, LineDone, PortInv, Flags, Kinds, RingType,
       InjectedFront, PortWork, Fragments
  <1> QED
    BY <1>1, <1>2, <1>3, <1>4, <1>5, <1>6, <1>7, <1>8, <1>9, <1>10, <1>11, <1>12 DEF Next,
       Thread, Rx, Port, Core, CoreStep

\* An overrun reaches the reset before the line behind it ends.
LEMMA OverStep == ASSUME PortInv, [Next]_vars PROVE Overruns'
  <1>1. CASE \/ UNCHANGED vars
             \/ RxQuiet \/ PortGate \/ (\E knock \in BOOLEAN : PortAccept(knock))
             \/ PortDeferred \/ (\E op \in {"jog", "command", "tray"} : RequestLine(op))
             \/ (\E open \in BOOLEAN : RequestEnvelope(open)) \/ RequestCancel
             \/ RequestSenderIn \/ RequestHangup \/ RequestNone \/ ReadBody \/ ReadCancel
             \/ MotionEnds \/ TakeCancel \/ ClientCloses
    <2>1. /\ UNCHANGED <<hole, rx_overrun, exec_reset, running, spoiled, torn, hooked>>
          /\ pc' = "restart" => pc = "restart"
      BY <1>1 DEF ReadsRequest, InCore, RxQuiet, PortGate, PortAccept, PortDeferred, RequestLine,
         RequestEnvelope, RequestCancel, RequestSenderIn, RequestHangup, RequestNone,
         ReadBody, ReadCancel, MotionEnds, TakeCancel, ClientCloses, vars
    <2> QED BY <2>1 DEF PortInv, Overruns
  <1>2. CASE HookTop
    BY <1>2 DEF HookTop, PortInv, Flags, Kinds, RingType, InjectedFront, Fragments,
       Overruns
  <1>3. CASE \E from \in {"net", "local"} : RxAccept(from)
    BY <1>3 DEF RxAccept, RxFlush, DropClient, LineDone, PortInv, Flags, Kinds, RingType,
       InjectedFront, Fragments, Overruns
  <1>4. CASE RxHangup
    BY <1>4 DEF RxHangup, RxFlush, DropClient, LineDone, PortInv, Flags, Kinds, RingType,
       InjectedFront, Fragments, Overruns
  <1>5. CASE \E byte \in {"b", "n"} : RxByte(byte)
    BY <1>5 DEF RxByte, Overrun, RingFull, PortInv, Flags, Kinds, RingType, InjectedFront,
       Fragments, Overruns
  <1>6. CASE RxReset
    BY <1>6 DEF RxReset, PortInv, Flags, Kinds, RingType, InjectedFront, Fragments,
       Overruns
  <1>7. CASE RxJogCancel
    BY <1>7 DEF RxJogCancel, RxFlush, DropClient, LineDone, PortInv, Flags, Kinds, RingType,
       InjectedFront, Fragments, Overruns
  <1>8. CASE RequestSenderOut
    BY <1>8 DEF RequestSenderOut, RxFlush, DropClient, LineDone, PortInv, Flags, Kinds, RingType,
       InjectedFront, Fragments, Overruns
  <1>9. CASE ReadEol
    BY <1>9 DEF ReadEol, InCore, Source, PortInv, Flags, Kinds, RingType, InjectedFront,
       Fragments, Overruns
  <1>10. CASE \E ok, jogs \in BOOLEAN : LineEnds(ok, jogs)
    BY <1>10 DEF LineEnds, InCore, StatusMessage, LineDone, PortInv, Flags, Kinds,
       RingType, InjectedFront, Fragments, Overruns
  <1>11. CASE TakeReset \/ Restart
    BY <1>11 DEF TakeReset, Restart, RxFlush, PortInv, Flags, Kinds, Overruns
  <1> QED
    BY <1>1, <1>2, <1>3, <1>4, <1>5, <1>6, <1>7, <1>8, <1>9, <1>10, <1>11 DEF Next,
       Thread, Rx, Port, Core, CoreStep

-----------------------------------------------------------------------------
(* The theorems.                                                           *)

\* Nobody is connected and the ring is empty.
LEMMA PortInit == ASSUME Init PROVE PortInv
  <1>1. RingType
    <2>1. <<>> \in Seq({"b", "n", "c"}) /\ Len(<<>>) <= RingCap
      OBVIOUS
    <2> QED BY <2>1 DEF Init, RingType
  <1>2. Kinds
    BY DEF Init, Kinds
  <1>3. Flags
    BY DEF Init, Flags
  <1>4. GateExact /\ PortWork
    BY DEF Init, GateExact, PortWork
  <1>5. InjectedFront /\ PortJogs /\ Fragments /\ Overruns
    BY DEF Init, InjectedFront, PortJogs, Fragments, Overruns
  <1> QED BY <1>1, <1>2, <1>3, <1>4, <1>5 DEF PortInv

\* The invariant the other theorems rest on.
THEOREM PortInvariant == Spec => []PortInv
  <1>1. ASSUME PortInv, [Next]_vars PROVE Flags'
    BY <1>1, RingFlags, ReadFlags, InjFlags, PortFlags, GateFlags, CoreFlags DEF Flags
  <1>2. ASSUME PortInv, [Next]_vars PROVE PortInv'
    BY <1>1, <1>2, KindsStep, RingStep, GateStep, FrontStep, WorkStep, JogsStep, FragStep,
       OverStep DEF PortInv
  <1> QED BY <1>2, PortInit, PTL DEF Spec

\* Every variable has its type, and the ring never holds more than it has room
\* for (rx_byte, serial_inject_line).
THEOREM TypeCorrect == Spec => []TypeOK
  <1>1. ASSUME PortInv PROVE TypeOK
    BY <1>1 DEF PortInv, Flags, Kinds, RingType, TypeOK
  <1> QED BY <1>1, PortInvariant, PTL

\* The read gate stands exactly as long as a jog of the port's or the hold of an
\* open envelope does (serial_hold_sender's callers in ctlport.c).
THEOREM GateIsExact == Spec => []GateExact
  BY PortInvariant, PTL DEF PortInv

\* An injected line stays whole at the front of the ring, whatever the sender
\* overruns behind it (rx_byte, serial_inject_line).
THEOREM InjectedStaysWhole == Spec => []InjectedWhole
  <1>1. ASSUME PortInv PROVE InjectedWhole
    BY <1>1 DEF PortInv, InjectedFront, InjectedWhole
  <1> QED BY <1>1, PortInvariant, PTL

\* With no client left, a jog of the port's has been sent its cancel
\* (drop_port_client, line_done).
THEOREM ClientIsDeadMan == Spec => []DeadMan
  <1>1. ASSUME PortInv PROVE DeadMan
    BY <1>1 DEF PortInv, PortJogs, DeadMan
  <1> QED BY <1>1, PortInvariant, PTL

\* No step but the reset ends a spoiled line.
LEMMA SpoiledStep ==
    ASSUME PortInv, [Next]_vars
    PROVE  [(running # "none" /\ spoiled /\ ~torn /\ running' = "none") => exec_reset]_vars
  <1> SUFFICES ASSUME running # "none", spoiled, ~torn, running' = "none", ~exec_reset, Next
               PROVE  FALSE
    OBVIOUS
  <1>1. ~hooked
    BY DEF PortInv, Overruns
  <1>2. CASE \/ HookTop \/ RxQuiet \/ (\E from \in {"net", "local"} : RxAccept(from))
             \/ RxHangup \/ (\E byte \in {"b", "n"} : RxByte(byte)) \/ RxReset
             \/ RxJogCancel \/ PortGate \/ (\E knock \in BOOLEAN : PortAccept(knock))
             \/ PortDeferred \/ (\E op \in {"jog", "command", "tray"} : RequestLine(op))
             \/ (\E open \in BOOLEAN : RequestEnvelope(open)) \/ RequestCancel
             \/ RequestSenderOut \/ RequestSenderIn \/ RequestHangup \/ RequestNone
             \/ ReadBody \/ ReadCancel \/ MotionEnds \/ TakeCancel \/ ClientCloses
    BY <1>2 DEF HookTop, RxQuiet, RxAccept, RxHangup, RxByte, RxReset, RxJogCancel,
       PortGate, PortAccept, PortDeferred, RequestLine, RequestEnvelope, RequestCancel,
       RequestSenderOut, RequestSenderIn, RequestHangup, RequestNone, ReadBody,
       ReadCancel, MotionEnds, TakeCancel, ClientCloses
  <1>3. CASE ReadEol
    BY <1>3 DEF ReadEol
  <1>4. CASE \E ok, jogs \in BOOLEAN : LineEnds(ok, jogs)
    BY <1>1, <1>4 DEF LineEnds
  <1>5. CASE TakeReset \/ Restart
    BY <1>5 DEF TakeReset, Restart
  <1> QED
    BY <1>2, <1>3, <1>4, <1>5 DEF Next, Thread, Rx, Port, Core, CoreStep

\* A line read behind dropped bytes, or glued from two sources, is never carried
\* out: the hook ends the job first (glowforge_process_realtime).  Only a line
\* behind what a flush left in the core (torn) is outside the claim.
THEOREM SpoiledIsNeverRun == Spec => SpoiledNeverRun
  BY PortInvariant, SpoiledStep, PTL DEF Spec, SpoiledNeverRun
=============================================================================
