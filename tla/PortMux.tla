------------------------------ MODULE PortMux ------------------------------
(***************************************************************************)
(* One core, two sources of lines: the sender's socket (serial.c) and the  *)
(* controller port (ctlport.c).                                            *)
(*                                                                         *)
(* The core reads one RX ring.  The port injects whole lines into an empty *)
(* ring, takes their statuses, marks the jogs it starts as its own, and    *)
(* holds the sender's lines behind a read gate while such a jog runs or    *)
(* while the bed check's envelope is open.  Senders come, displace each    *)
(* other, overrun the ring and hang up; the port's client hangs up and     *)
(* reconnects.                                                             *)
(*                                                                         *)
(* All of it runs on the protocol thread: the realtime hook (HookTop) ends *)
(* in one serial_poll (RxPoll, then the three blocks of ctlport_poll), and *)
(* the core reads a byte, finishes a line or takes its realtime flags only *)
(* between two hooks.  A line is a body byte and an end-of-line byte; the  *)
(* socket gives one byte a poll.  Clocks (the quiet times, the deferral's  *)
(* end) are left open.                                                     *)
(***************************************************************************)
EXTENDS Naturals, Sequences

CONSTANTS
    RingCap,      (* bytes the RX ring holds                                 *)
    Ops           (* the port requests the client makes                      *)

ASSUME PortMuxAssumption ==
    /\ RingCap \in Nat /\ RingCap >= 2
    /\ Ops \subseteq {"jog", "command", "tray", "open", "apply", "cancel",
                      "out", "in"}

VARIABLES
    pc,                \* where the protocol thread is
    \* serial.c
    ring,              \* the RX ring: "b" body, "n" end of line, "c" cancel
    sender,            \* the connected sender: none, net or local
    keep_out,          \* senders from the network are refused
    rx_discarding, rx_overrun,
    sender_midline, read_midline, sender_line_open,
    inj_active, inj_left, inj_status_due,
    hold_sender,       \* the read gate
    \* ctlport.c
    port_fd,           \* none, open, or hungup (its end closed, unseen)
    awaiting, awaiting_jog,
    port_jog, cancel_sent,
    deferred,          \* the op whose line waits for the ring, or none
    tray_want, envelope_hold, envelope_is_open,
    \* the core (external)
    st,                \* idle, run, jog or alarm
    exec_cancel, exec_reset,   \* realtime flags not yet taken
    buffered,          \* whose bytes its line buffer holds
    running,           \* whose line it runs: none, sender or port
    hooked,            \* a hook has passed since that line's end was read
    \* history
    hole,              \* bytes of this session were dropped
    orphan,            \* the line buffer holds what a flushed line left there
    spoiled, torn      \* the line being run was read behind a hole or glued to
                       \* other bytes; those bytes were a flushed line's

ringVars == <<ring, rx_discarding, rx_overrun, sender_midline, hole>>
sessionVars == <<sender, keep_out>>
readVars == <<read_midline, sender_line_open, buffered, orphan>>
injVars == <<inj_active, inj_left, inj_status_due>>
portVars == <<awaiting, awaiting_jog, port_jog, cancel_sent, tray_want>>
clientVars == <<port_fd, deferred>>
gateVars == <<hold_sender, envelope_hold, envelope_is_open>>
coreVars == <<st, exec_cancel, exec_reset>>
runVars == <<running, hooked, spoiled, torn>>
vars == <<pc, ringVars, sessionVars, readVars, injVars, portVars, clientVars,
          gateVars, coreVars, runVars>>

Init ==
    /\ pc = "core"
    /\ ring = <<>> /\ sender = "none" /\ keep_out = FALSE
    /\ rx_discarding = FALSE /\ rx_overrun = FALSE
    /\ sender_midline = FALSE /\ read_midline = FALSE /\ sender_line_open = FALSE
    /\ inj_active = FALSE /\ inj_left = 0 /\ inj_status_due = FALSE
    /\ hold_sender = FALSE
    /\ port_fd = "none" /\ awaiting = FALSE /\ awaiting_jog = FALSE
    /\ port_jog = FALSE /\ cancel_sent = FALSE /\ deferred = "none"
    /\ tray_want = FALSE /\ envelope_hold = FALSE /\ envelope_is_open = FALSE
    /\ st = "idle" /\ exec_cancel = FALSE /\ exec_reset = FALSE
    /\ buffered = {} /\ running = "none" /\ hooked = FALSE
    /\ hole = FALSE /\ orphan = FALSE /\ spoiled = FALSE /\ torn = FALSE

-----------------------------------------------------------------------------
(* The ring.                                                               *)

\* serial_sender_pending: behind an injected line, a byte that is not an end
\* of line.
SenderPending == \E i \in (inj_left + 1)..Len(ring) : ring[i] # "n"

\* serial_sender_empty_lines_only.
EmptyLinesOnly == ring # <<>> /\ inj_left = 0 /\ ~SenderPending

\* serial_inject_line: the ring is empty and the sender between lines.
CanInject == ~inj_active /\ ~sender_midline /\ ~rx_discarding /\ ring = <<>>

Inject ==
    /\ ring' = <<"b", "n">>
    /\ inj_active' = TRUE /\ inj_left' = 2 /\ inj_status_due' = FALSE

\* line_done: a status of the port's line.  A jog that started is the port's
\* and shuts the gate; a reply the client cannot take is a hang-up, and drops
\* it (drop_port_client), with the core in the state now.
LineDone(ok, now) ==
    LET jogs == ok /\ awaiting_jog /\ ~tray_want
        gone == port_fd = "hungup"
    IN  /\ awaiting' = FALSE /\ tray_want' = FALSE
        /\ port_jog' = (port_jog \/ jogs)
        /\ hold_sender' = (hold_sender \/ jogs)
        /\ port_fd' = IF gone THEN "none" ELSE port_fd
        /\ envelope_is_open' = (envelope_is_open /\ ~gone)
        /\ LET cs == cancel_sent /\ ~jogs
               sends == gone /\ port_jog' /\ ~cs /\ now = "jog"
           IN  exec_cancel' = (exec_cancel \/ sends) /\ cancel_sent' = (cs \/ sends)
        /\ UNCHANGED <<awaiting_jog, deferred, envelope_hold>>

\* serialRxFlush: an injected line goes with the rest, and the port is told.
\* What it leaves in the ring is the caller's.  The core's line buffer is not
\* the stream's to empty: what the core has read of a line stays there.
RxFlush(left) ==
    /\ ring' = left
    /\ rx_discarding' = FALSE /\ sender_midline' = FALSE /\ hole' = FALSE
    /\ read_midline' = FALSE /\ sender_line_open' = FALSE
    /\ orphan' = (buffered' # {})
    /\ inj_active' = FALSE /\ inj_left' = 0 /\ inj_status_due' = FALSE
    /\ IF inj_active THEN LineDone(FALSE, st)
       ELSE UNCHANGED <<portVars, clientVars, gateVars, exec_cancel>>
    /\ UNCHANGED rx_overrun

-----------------------------------------------------------------------------
(* The realtime hook's overrun check, then rx_poll.                        *)

\* Mutant: the overrun taken and not acted on while the machine is idle.
Bug_OverrunIdle ==
    /\ pc = "core" /\ ~exec_reset /\ ~exec_cancel
    /\ exec_reset' = (rx_overrun /\ st # "idle")
    /\ rx_overrun' = FALSE
    /\ hooked' = (running # "none")
    /\ pc' = "rx"
    /\ UNCHANGED <<ring, rx_discarding, sender_midline, hole, sessionVars, readVars,
                   injVars, portVars, clientVars, gateVars, st, exec_cancel,
                   running, spoiled, torn>>

\* glowforge_process_realtime: an overrun ends the job as ^X would.
HookTop ==
    /\ pc = "core" /\ ~exec_reset /\ ~exec_cancel
    /\ exec_reset' = rx_overrun
    /\ rx_overrun' = FALSE
    /\ hooked' = (running # "none")
    /\ pc' = "rx"
    /\ UNCHANGED <<ring, rx_discarding, sender_midline, hole, sessionVars, readVars,
                   injVars, portVars, clientVars, gateVars, st, exec_cancel,
                   running, spoiled, torn>>

RxQuiet ==
    /\ pc = "rx" /\ pc' = "gate"
    /\ UNCHANGED <<ringVars, sessionVars, readVars, injVars, portVars, clientVars,
                   gateVars, coreVars, runVars>>

\* drop_client, the session itself aside.
DropClient == UNCHANGED buffered /\ RxFlush(<<>>)

\* accept4: the last connection wins, unless senders are kept out.
RxAccept(from) ==
    /\ pc = "rx"
    /\ keep_out => from = "local"
    /\ sender' = from
    /\ IF sender = "none"
       THEN UNCHANGED <<ringVars, readVars, injVars, portVars, clientVars, gateVars,
                        exec_cancel>>
       ELSE DropClient
    /\ pc' = "gate"
    /\ UNCHANGED <<keep_out, st, exec_reset, runVars>>

\* The sender hangs up, or its socket fails.
RxHangup ==
    /\ pc = "rx" /\ sender # "none"
    /\ sender' = "none"
    /\ DropClient
    /\ pc' = "gate"
    /\ UNCHANGED <<keep_out, st, exec_reset, runVars>>

\* What is left of a ring whose last line is unwritten.
UpToEol(r) ==
    LET ends == {i \in 1..Len(r) : r[i] = "n"}
    IN  SubSeq(r, 1, IF ends = {} THEN 0
                     ELSE CHOOSE i \in ends : \A j \in ends : j <= i)

\* Mutant: the whole ring is unwritten, an injected line with it.
Bug_UnwriteAll(byte) ==
    /\ rx_overrun' = TRUE /\ hole' = TRUE
    /\ rx_discarding' = (byte # "n")
    /\ ring' = <<>>
    /\ sender_midline' = FALSE

\* Mutant: the ring one byte over its end.
Bug_OneOver == Len(ring) > RingCap

RingFull == Len(ring) = RingCap

\* The line that overruns is dropped whole, and the overrun latched.
Overrun(byte) ==
    /\ rx_overrun' = TRUE /\ hole' = TRUE
    /\ rx_discarding' = (byte # "n")
    /\ ring' = UpToEol(ring)
    /\ sender_midline' = FALSE

\* rx_byte, a byte that is no realtime command.
RxByte(byte) ==
    /\ pc = "rx" /\ sender # "none"
    /\ IF rx_discarding
       THEN /\ rx_discarding' = (byte # "n")
            /\ UNCHANGED <<ring, rx_overrun, sender_midline, hole>>
       ELSE IF RingFull
       THEN Overrun(byte)
       ELSE /\ ring' = Append(ring, byte)
            /\ sender_midline' = (byte # "n")
            /\ UNCHANGED <<rx_discarding, rx_overrun, hole>>
    /\ pc' = "gate"
    /\ UNCHANGED <<sessionVars, readVars, injVars, portVars, clientVars, gateVars,
                   coreVars, runVars>>

\* ^X: the core has the reset whatever the ring holds.
RxReset ==
    /\ pc = "rx" /\ sender # "none"
    /\ exec_reset' = TRUE
    /\ pc' = "gate"
    /\ UNCHANGED <<ringVars, sessionVars, readVars, injVars, portVars, clientVars,
                   gateVars, st, exec_cancel, runVars>>

\* serialRxCancel, at a jog cancel: the ring is flushed and a cancel left in
\* it, which the core reads in place of the line.
RxJogCancel ==
    /\ pc = "rx" /\ sender # "none"
    /\ UNCHANGED buffered /\ RxFlush(<<"c">>)
    /\ pc' = "gate"
    /\ UNCHANGED <<sessionVars, st, exec_reset, runVars>>

-----------------------------------------------------------------------------
(* ctlport_poll: the gate.                                                 *)

\* cancel_port_jog, for the jog the flags pj and cs describe.
CancelPortJog(pj, cs) ==
    LET sends == pj /\ ~cs /\ st = "jog"
    IN  /\ exec_cancel' = (exec_cancel \/ sends)
        /\ cancel_sent' = (cs \/ sends)

\* Mutant: the end of a jog that leaves the gate shut.
Bug_JogEndKeepsGate(over) == hold_sender

\* The gate behind the first block: a port jog that is over opens it.
HoldAfterJog(over) == hold_sender /\ ~over

\* Mutant: a sender's line is looked for only before the hold is taken.
Bug_ClosesUnheld(pj) == envelope_is_open /\ ~awaiting /\ SenderPending /\ ~pj /\ ~envelope_hold

\* The first line of the sender's closes the envelope, once no port jog runs.
ClosesEnvelope(pj) == envelope_is_open /\ ~awaiting /\ SenderPending /\ ~pj

\* The two blocks at the top of ctlport_poll.
PortGate ==
    LET over == port_jog /\ ~awaiting /\ st # "jog"
        pj == port_jog /\ ~over
        mine == envelope_is_open /\ ~awaiting
        closes == ClosesEnvelope(pj)
        stale == envelope_hold /\ ~envelope_is_open
        cancels == ~awaiting /\ pj /\ SenderPending
    IN  /\ pc = "gate" /\ pc' = "client"
        /\ port_jog' = pj
        /\ IF cancels THEN CancelPortJog(pj, cancel_sent)
           ELSE UNCHANGED <<exec_cancel, cancel_sent>>
        /\ envelope_is_open' = (envelope_is_open /\ ~closes)
        /\ envelope_hold' = IF mine /\ ~SenderPending THEN TRUE
                            ELSE envelope_hold /\ ~closes /\ ~stale
        /\ hold_sender' = IF mine /\ ~SenderPending THEN TRUE
                          ELSE IF closes \/ (stale /\ ~pj) THEN FALSE
                          ELSE HoldAfterJog(over)
        /\ UNCHANGED <<ringVars, sessionVars, readVars, injVars, awaiting, awaiting_jog,
                       tray_want, clientVars, st, exec_reset, runVars>>

-----------------------------------------------------------------------------
(* ctlport_poll: the client, the deferred line and the request.            *)

\* Mutant: a hang-up that leaves the client's jog running.
Bug_DropKeepsJog ==
    /\ deferred' = "none"
    /\ envelope_is_open' = FALSE
    /\ UNCHANGED <<exec_cancel, cancel_sent>>

\* drop_port_client, port_fd aside: the client is the dead-man.
ClientDropped ==
    /\ deferred' = "none"
    /\ envelope_is_open' = FALSE
    /\ CancelPortJog(port_jog, cancel_sent)

\* The client's end closes; the port sees it when it next looks.
ClientCloses ==
    /\ pc = "core" /\ port_fd = "open"
    /\ port_fd' = "hungup"
    /\ UNCHANGED <<pc, ringVars, sessionVars, readVars, injVars, portVars, deferred,
                   gateVars, coreVars, runVars>>

\* One request at a time: nothing is read while a line is outstanding.
ReadsRequest(fd, aw) == IF fd # "none" /\ ~aw THEN "request" ELSE "core"

\* accept4: a second client is refused, a client's own corpse is not.
PortAccept(knock) ==
    /\ pc = "client"
    /\ IF knock /\ port_fd = "hungup"
       THEN port_fd' = "open" /\ ClientDropped
       ELSE /\ port_fd' = IF knock /\ port_fd = "none" THEN "open" ELSE port_fd
            /\ UNCHANGED <<deferred, envelope_is_open, exec_cancel, cancel_sent>>
    /\ pc' = IF deferred' # "none" THEN "deferred" ELSE ReadsRequest(port_fd', awaiting)
    /\ UNCHANGED <<ringVars, sessionVars, readVars, injVars, awaiting, awaiting_jog,
                   port_jog, tray_want, hold_sender, envelope_hold, st, exec_reset,
                   runVars>>

\* The deferred line: injected, or given up on a sender's line or in time.
PortDeferred ==
    /\ pc = "deferred"
    /\ \/ /\ CanInject /\ Inject
          /\ awaiting' = TRUE /\ awaiting_jog' = (deferred = "jog")
          /\ deferred' = "none" /\ pc' = "core"
          /\ UNCHANGED tray_want
       \/ /\ ~CanInject
          /\ deferred' = "none" /\ tray_want' = FALSE
          /\ pc' = ReadsRequest(port_fd, awaiting)
          /\ UNCHANGED <<ring, injVars, awaiting, awaiting_jog>>
       \/ /\ ~CanInject /\ ~SenderPending /\ pc' = "core"
          /\ UNCHANGED <<ring, injVars, awaiting, awaiting_jog, tray_want, deferred>>
    /\ UNCHANGED <<rx_discarding, rx_overrun, sender_midline, hole, sessionVars, readVars,
                   port_jog, cancel_sent, port_fd, gateVars, coreVars, runVars>>

\* inject: into an empty ring now, behind the sender's empty lines later, or
\* busy:sender.
SubmitLine(op) ==
    \/ /\ CanInject /\ Inject
       /\ awaiting' = TRUE /\ awaiting_jog' = (op = "jog")
       /\ tray_want' = (tray_want \/ op = "tray")
       /\ UNCHANGED deferred
    \/ /\ ~CanInject /\ EmptyLinesOnly
       /\ deferred' = op
       /\ tray_want' = (tray_want \/ op = "tray")
       /\ UNCHANGED <<ring, injVars, awaiting, awaiting_jog>>
    \/ /\ ~CanInject /\ ~EmptyLinesOnly
       /\ tray_want' = FALSE
       /\ UNCHANGED <<ring, injVars, awaiting, awaiting_jog, deferred>>

\* op_jog, op_command and op_tray: which core state and which sender let the
\* line through.
Admits(op) ==
    /\ ~SenderPending
    /\ \/ st = "idle" /\ (op = "tray" => ~port_jog)
       \/ op = "jog" /\ st = "jog" /\ port_jog
       \/ op = "command" /\ st = "alarm"

RequestLine(op) ==
    /\ pc = "request" /\ port_fd = "open" /\ Admits(op)
    /\ SubmitLine(op)
    /\ pc' = "core"
    /\ UNCHANGED <<rx_discarding, rx_overrun, sender_midline, hole, sessionVars, readVars,
                   port_jog, cancel_sent, port_fd, gateVars, coreVars, runVars>>

\* envelope open and envelope apply: gfhome_envelope on a homed, idle machine.
RequestEnvelope(open) ==
    /\ pc = "request" /\ port_fd = "open" /\ st = "idle"
    /\ envelope_is_open' = open
    /\ pc' = "core"
    /\ UNCHANGED <<ringVars, sessionVars, readVars, injVars, portVars, clientVars,
                   hold_sender, envelope_hold, coreVars, runVars>>

RequestCancel ==
    /\ pc = "request" /\ port_fd = "open"
    /\ CancelPortJog(port_jog, cancel_sent)
    /\ pc' = "core"
    /\ UNCHANGED <<ringVars, sessionVars, readVars, injVars, awaiting, awaiting_jog,
                   port_jog, tray_want, clientVars, gateVars, st, exec_reset,
                   runVars>>

\* op_sender_out: an idle machine, and a sender with nothing under way.
RequestSenderOut ==
    /\ pc = "request" /\ port_fd = "open" /\ ~keep_out
    /\ st = "idle" /\ ~port_jog /\ ~envelope_is_open
    /\ ~sender_midline /\ ~sender_line_open /\ ~SenderPending
    /\ keep_out' = TRUE
    /\ IF sender = "net"
       THEN sender' = "none" /\ DropClient
       ELSE UNCHANGED <<sender, ringVars, readVars, injVars, portVars, clientVars,
                        gateVars, exec_cancel>>
    /\ pc' = "core"
    /\ UNCHANGED <<st, exec_reset, runVars>>

RequestSenderIn ==
    /\ pc = "request" /\ port_fd = "open"
    /\ keep_out' = FALSE
    /\ pc' = "core"
    /\ UNCHANGED <<ringVars, sender, readVars, injVars, portVars, clientVars,
                   gateVars, coreVars, runVars>>

\* The read finds the client gone, or its request too long.
RequestHangup ==
    /\ pc = "request"
    /\ port_fd' = "none" /\ ClientDropped
    /\ pc' = "core"
    /\ UNCHANGED <<ringVars, sessionVars, readVars, injVars, awaiting, awaiting_jog,
                   port_jog, tray_want, hold_sender, envelope_hold, st, exec_reset,
                   runVars>>

\* Nothing to read, or a request that is refused.
RequestNone ==
    /\ pc = "request" /\ port_fd = "open"
    /\ pc' = "core"
    /\ UNCHANGED <<ringVars, sessionVars, readVars, injVars, portVars, clientVars,
                   gateVars, coreVars, runVars>>

-----------------------------------------------------------------------------
(* The core (external), through serialGetC and the status hook.            *)

\* The thread is in the core, with no realtime flag waiting.
InCore == pc = "core" /\ ~exec_reset /\ ~exec_cancel

\* serialGetC's gate: an injected byte, a cancel or an empty line passes.
Passes(byte) ==
    \/ ~hold_sender \/ inj_left > 0 \/ byte = "c"
    \/ byte = "n" /\ ~read_midline

Source == IF inj_left > 0 THEN "port" ELSE "sender"

\* A body byte goes to the core's line buffer.
ReadBody ==
    /\ InCore /\ running = "none" /\ ring # <<>> /\ Head(ring) = "b" /\ Passes("b")
    /\ ring' = Tail(ring)
    /\ read_midline' = TRUE
    /\ sender_line_open' = (sender_line_open \/ inj_left = 0)
    /\ buffered' = buffered \cup {Source}
    /\ inj_left' = IF inj_left > 0 THEN inj_left - 1 ELSE 0
    /\ UNCHANGED <<pc, rx_discarding, rx_overrun, sender_midline, hole, sessionVars, orphan,
                   inj_active, inj_status_due, portVars, clientVars, gateVars, coreVars,
                   runVars>>

\* An end of line: an empty line is answered to the sender at once, any other
\* is run.
ReadEol ==
    /\ InCore /\ running = "none" /\ ring # <<>> /\ Head(ring) = "n" /\ Passes("n")
    /\ ring' = Tail(ring)
    /\ read_midline' = FALSE
    /\ buffered' = {} /\ orphan' = FALSE
    /\ inj_left' = IF inj_left > 0 THEN inj_left - 1 ELSE 0
    /\ inj_status_due' = (inj_status_due \/ inj_left = 1)
    /\ running' = IF buffered = {} THEN "none" ELSE Source
    /\ sender_line_open' = (sender_line_open /\ buffered # {})
    /\ hooked' = FALSE /\ torn' = orphan
    /\ spoiled' = (hole \/ orphan \/ buffered = {"sender", "port"})
    /\ UNCHANGED <<pc, rx_discarding, rx_overrun, sender_midline, hole, sessionVars,
                   inj_active, portVars, clientVars, gateVars, coreVars>>

\* A cancel empties the line buffer and ends a jog.
ReadCancel ==
    /\ InCore /\ running = "none" /\ ring # <<>> /\ Head(ring) = "c"
    /\ ring' = Tail(ring)
    /\ read_midline' = TRUE /\ sender_line_open' = TRUE
    /\ buffered' = {} /\ orphan' = FALSE
    /\ exec_cancel' = (st = "jog")
    /\ UNCHANGED <<pc, rx_discarding, rx_overrun, sender_midline, hole, sessionVars,
                   injVars, portVars, clientVars, gateVars, st, exec_reset, runVars>>

\* inject_status_message: the status that is due for an injected line goes to
\* the port, every other to the sender.
StatusMessage(ok) ==
    IF inj_status_due
    THEN /\ inj_active' = FALSE /\ inj_status_due' = FALSE
         /\ LineDone(ok, st')
         /\ UNCHANGED sender_line_open
    ELSE /\ sender_line_open' = FALSE
         /\ UNCHANGED <<inj_active, inj_status_due, portVars, clientVars, gateVars,
                        exec_cancel>>

\* The line ends, refused or done.  A jog runs on an idle machine or behind a
\* jog; a sender's motion leaves the core running.
LineEnds(ok, jogs) ==
    /\ InCore /\ running # "none" /\ hooked
    /\ IF ok /\ jogs
       THEN /\ st \in {"idle", "jog"}
            /\ st' = "jog"
       ELSE st' \in IF ok /\ running = "sender" /\ st = "idle"
                    THEN {"idle", "run"} ELSE {st}
    /\ running = "port" /\ ok => jogs = (awaiting_jog /\ awaiting)
    /\ running = "sender" => (ok => st # "jog" \/ jogs) /\ (ok => st # "alarm")
    /\ running' = "none" /\ hooked' = FALSE /\ spoiled' = FALSE /\ torn' = FALSE
    /\ StatusMessage(ok)
    /\ UNCHANGED <<pc, ringVars, sessionVars, read_midline, buffered, orphan, inj_left,
                   exec_reset>>

\* The jog or the sender's motion comes to its end.
MotionEnds ==
    /\ InCore /\ st \in {"jog", "run"}
    /\ st' = "idle"
    /\ UNCHANGED <<pc, ringVars, sessionVars, readVars, injVars, portVars, clientVars,
                   gateVars, exec_cancel, exec_reset, runVars>>

\* EXEC_MOTION_CANCEL: a jog ends; nothing else is cancelled by it.
TakeCancel ==
    /\ pc = "core" /\ exec_cancel /\ ~exec_reset
    /\ exec_cancel' = FALSE
    /\ st' = IF st = "jog" THEN "idle" ELSE st
    /\ UNCHANGED <<pc, ringVars, sessionVars, readVars, injVars, portVars, clientVars,
                   gateVars, exec_reset, runVars>>

\* EXEC_RESET: driverReset closes the envelope and the core drops the line it
\* runs.
TakeReset ==
    /\ pc = "core" /\ exec_reset
    /\ exec_cancel' = FALSE
    /\ st' \in IF st = "idle" THEN {"idle"} ELSE {"idle", "alarm"}
    /\ envelope_is_open' = FALSE
    /\ running' = "none" /\ hooked' = FALSE /\ spoiled' = FALSE /\ torn' = FALSE
    /\ pc' = "restart"
    /\ UNCHANGED <<ringVars, sessionVars, readVars, injVars, portVars, clientVars,
                   hold_sender, envelope_hold, exec_reset>>

\* On its way back up the core flushes the ring and its line buffer.
Restart ==
    /\ pc = "restart" /\ pc' = "core"
    /\ exec_reset' = FALSE
    /\ buffered' = {} /\ RxFlush(<<>>)
    /\ UNCHANGED <<sessionVars, st, runVars>>

-----------------------------------------------------------------------------
\* What the core does of its own between two hooks.
CoreStep ==
    \/ ReadBody \/ ReadEol \/ ReadCancel
    \/ \E ok, jogs \in BOOLEAN : LineEnds(ok, jogs)
    \/ MotionEnds

Core == CoreStep \/ TakeCancel \/ TakeReset \/ Restart

Rx ==
    \/ RxQuiet \/ RxHangup \/ RxReset \/ RxJogCancel
    \/ \E from \in {"net", "local"} : RxAccept(from)
    \/ \E byte \in {"b", "n"} : RxByte(byte)

Port ==
    \/ PortGate \/ PortDeferred
    \/ \E knock \in BOOLEAN : PortAccept(knock)
    \/ \E op \in Ops \cap {"jog", "command", "tray"} : RequestLine(op)
    \/ "open" \in Ops /\ RequestEnvelope(TRUE)
    \/ "apply" \in Ops /\ RequestEnvelope(FALSE)
    \/ "cancel" \in Ops /\ RequestCancel
    \/ "out" \in Ops /\ RequestSenderOut
    \/ "in" \in Ops /\ RequestSenderIn
    \/ RequestHangup \/ RequestNone

Thread == HookTop \/ Rx \/ Port \/ Core

Next == Thread \/ ClientCloses

Spec == Init /\ [][Next]_vars

\* The protocol thread never stops, and its loop comes back to the core's own
\* work: to a line it can read, the end of a line it runs, the end of motion.
FairSpec == Spec /\ WF_vars(Thread) /\ SF_vars(CoreStep)

-----------------------------------------------------------------------------
(* Properties.                                                             *)

\* Every variable has its type; the ring never holds more than it has room
\* for (rx_byte).
TypeOK ==
    /\ pc \in {"core", "rx", "gate", "client", "deferred", "request", "restart"}
    /\ ring \in Seq({"b", "n", "c"}) /\ Len(ring) <= RingCap
    /\ sender \in {"none", "net", "local"}
    /\ port_fd \in {"none", "open", "hungup"}
    /\ deferred \in {"none", "jog", "command", "tray"}
    /\ st \in {"idle", "run", "jog", "alarm"}
    /\ running \in {"none", "sender", "port"}
    /\ buffered \subseteq {"sender", "port"}
    /\ inj_left \in 0..2
    /\ {keep_out, rx_discarding, rx_overrun, sender_midline, read_midline,
        sender_line_open, inj_active, inj_status_due, hold_sender, awaiting,
        awaiting_jog, port_jog, cancel_sent, tray_want, envelope_hold,
        envelope_is_open, exec_cancel, exec_reset, hooked, hole, orphan, spoiled,
        torn} \subseteq BOOLEAN

\* The read gate stands exactly as long as one of its reasons does: a jog that
\* is marked as the port's, or the hold taken for an open envelope.  A gate
\* that outlives them starves the sender (serial_hold_sender's callers).
GateExact == hold_sender = (port_jog \/ envelope_hold)

\* What is left of an injected line stands whole at the front of the ring,
\* through overruns that unwrite the sender's line behind it (rx_byte).
InjectedWhole ==
    inj_left > 0 => inj_active /\ Len(ring) >= inj_left /\ ring[inj_left] = "n"

\* The client is the dead-man: with no client left, a jog marked as the port's
\* has been sent its cancel (drop_port_client).
DeadMan == (port_fd = "none" /\ port_jog /\ st = "jog") => cancel_sent

\* A line that the core read behind an overrun, or glued from a line of the
\* sender's and one of the port's, is never carried out: the hook ends the job
\* first (rx_byte, serial_inject_line, glowforge_process_realtime).  The one
\* exception is a line read behind the bytes that a flushed line left in the
\* core (torn): drop_client and serialRxFlush tell the core nothing.
SpoiledNeverRun ==
    [][(running # "none" /\ spoiled /\ ~torn /\ running' = "none") => exec_reset]_vars

\* serial.c, drop_client: "the next sender's first line must never be glued to a
\* fragment of the last".
NeverTorn == ~(running # "none" /\ torn)

\* The sender always wins: a line of its own is not held for ever, whatever
\* jogs and envelopes the port has going (ctlport_poll).
SenderServed == []<>~(hold_sender /\ SenderPending)

\* ctlport.c: "the sender's lines wait while it is open ... and the first one
\* closes it before the core reads it".
EnvelopeIsPorts ==
    [][(running # "sender" /\ running' = "sender") => ~envelope_is_open]_vars

\* serial.h: "the status of an injected line goes to its source and never to
\* the sender".
StatusToItsSource ==
    [][(running = "port" /\ running' = "none" /\ ~exec_reset) => inj_status_due]_vars
=============================================================================
