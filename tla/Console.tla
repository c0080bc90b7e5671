------------------------------ MODULE Console ------------------------------
(***************************************************************************)
(* The console of a sandbox session: console_relay of the launcher         *)
(* (sandbox_host.c), relay of the guest's init (sandbox_init.c), the       *)
(* virtio port between them and the shell behind the guest's pipes or pty. *)
(*                                                                         *)
(* The six struct sb_queue of the two relays are byte sequences here:      *)
(* SbQueueProofs shows that the buffer with its offsets implements that.   *)
(* A frame is two header words (type, size) and its payload, one cell      *)
(* each, so a transfer may stop inside a header or a payload.  Payload     *)
(* bytes of a stream are numbered 1, 2, ... so that loss, duplication and  *)
(* reordering show.  An exit code and a window size take one cell.         *)
(*                                                                         *)
(* Each relay is a loop: the part before poll (Top, Frame, Poll) and the   *)
(* transfers poll reported, one action each, in the order of the code.     *)
(***************************************************************************)
EXTENDS Naturals, Sequences, FiniteSets

CONSTANTS SB_CHUNK, SB_QUEUE,
          Codes,          \* exit codes of the shell
          ChannelCap,     \* cells each stage of the virtio port holds
          PipeCap,        \* bytes a guest pipe or pty direction holds
          Sessions        \* the sessions considered, a set of records of Session

FaultKinds == {"interrupt", "timeout", "stdout", "stdin_closed", "early_off"}
Session == [terminal : BOOLEAN, input : Nat, output : Nat, errors : Nat, resizes : Nat,
            faults : SUBSET FaultKinds]

ASSUME ConsoleAssumption ==
  /\ SB_CHUNK \in Nat \ {0} /\ SB_QUEUE \in Nat
  /\ SB_QUEUE >= 2 * SB_CHUNK + 1
  /\ \A x \in Sessions : x \in Session

SB_INPUT == 1
SB_OUTPUT == 2
SB_ERROR == 3
SB_EOF == 4
SB_EXIT == 5
SB_WINDOW == 6
SB_READY == 7
HeaderSize == 2

VARIABLES
  session,        \* what this session is like; it never changes
  \* the launcher
  hpc,            \* "top", "frames", "io" or "done"
  htodo,          \* the transfers poll reported, still to be done
  hrx, htx, hout, herr,
  heof, received_exit, ready, connected, result, protocol_error,
  interrupted, resized, window, resizes,
  stdin,          \* how many bytes have been read of the caller's stdin
  stdout, stderr, \* what has been written to the caller's streams
  \* the virtio port
  vq,             \* guest to launcher: in the guest's virtqueue
  sock,           \* guest to launcher: in the launcher's socket
  down,           \* launcher to guest
  \* the guest's init
  gpc,            \* "top", "frames", "io", "delay" or "off"
  gtodo, grx, gtx, gin, geof, exited, status, sent_exit,
  input, output, errors,   \* these descriptors are open
  gwindow, died,
  \* the shell
  child,          \* "running", "zombie" or "reaped"
  job,            \* a detached job still holds the shell's streams
  code,
  cin, ceof,      \* bytes in the stdin pipe, and its write end is closed
  read_in,        \* bytes the shell has read
  creader,        \* somebody can read the stdin pipe
  outpipe, errpipe,        \* bytes in the pipes
  wrote_out, wrote_err     \* how many bytes have been written to them

hostVars == << hpc, htodo, hrx, htx, hout, herr, heof, received_exit, ready, connected,
               result, protocol_error, interrupted, resized, window, resizes,
               stdin, stdout, stderr >>
portVars == << vq, sock, down >>
guestVars == << gpc, gtodo, grx, gtx, gin, geof, exited, status, sent_exit,
                input, output, errors, gwindow, died >>
shellVars == << child, job, code, cin, ceof, read_in, creader, outpipe, errpipe,
                wrote_out, wrote_err >>
vars == << session, hostVars, portVars, guestVars, shellVars >>

Terminal == session.terminal    \* all three standard streams are terminals
InBytes == session.input        \* how many bytes the caller's stdin holds before its end
OutBytes == session.output      \* how many bytes the shell and its jobs write to stdout
ErrBytes == session.errors      \* and to stderr
MaxResize == session.resizes    \* window changes and continuations of the launcher
Faults == session.faults        \* faults of the environment that may occur

Smaller(a, b) == IF a < b THEN a ELSE b
Drop(s, n) == SubSeq(s, n + 1, Len(s))
Take(s, n) == SubSeq(s, 1, n)
sb_room(q) == SB_QUEUE - Len(q)
sb_append(q, s) == IF sb_room(q) < Len(s) THEN q ELSE q \o s
Frame(type, s) == << type, Len(s) >> \o s

\* sb_packet: queued whole, or refused (the callers ignore a refusal).
sb_packet(q, type, s) ==
  IF Len(s) <= SB_CHUNK /\ sb_room(q) >= HeaderSize + Len(s) THEN q \o Frame(type, s) ELSE q

sb_peek(q) ==
  IF Len(q) < HeaderSize THEN "incomplete"
  ELSE IF q[2] > SB_CHUNK THEN "invalid"
  ELSE IF Len(q) < HeaderSize + q[2] THEN "incomplete" ELSE "frame"
PeekType(q) == q[1]
PeekSize(q) == q[2]
PeekData(q) == SubSeq(q, HeaderSize + 1, HeaderSize + q[2])
FrameConsumed(q) == Drop(q, HeaderSize + q[2])

\* sb_receive with something to read: how many cells one read takes.
ReceiveSize(from, q) == Smaller(Len(from), Smaller(sb_room(q), SB_CHUNK))
\* sb_flush: how many cells one write takes, given the room of what it writes to.
FlushSize(q, to, cap) == Smaller(Len(q), cap - Len(to))

Init ==
  /\ session \in Sessions
  /\ hpc = "top" /\ htodo = {} /\ hrx = << >> /\ htx = << >> /\ hout = << >> /\ herr = << >>
  /\ heof = FALSE /\ received_exit = FALSE /\ ready = FALSE /\ connected = TRUE
  /\ result = 125 /\ protocol_error = FALSE
  /\ interrupted = FALSE /\ resized = FALSE /\ window = 0 /\ resizes = 0
  /\ stdin = 0 /\ stdout = << >> /\ stderr = << >>
  /\ vq = << >> /\ sock = << >> /\ down = << >>
  /\ gpc = "top" /\ gtodo = {} /\ grx = << >> /\ gtx = Frame(SB_READY, << >>) /\ gin = << >>
  /\ geof = FALSE /\ exited = FALSE /\ status = 125 /\ sent_exit = FALSE
  /\ input = TRUE /\ output = TRUE /\ errors = ~Terminal /\ gwindow = 0 /\ died = FALSE
  /\ child = "running" /\ job = FALSE /\ code = 0
  /\ cin = << >> /\ ceof = FALSE /\ read_in = << >> /\ creader = TRUE
  /\ outpipe = << >> /\ errpipe = << >> /\ wrote_out = 0 /\ wrote_err = 0
-----------------------------------------------------------------------------
(* The launcher: console_relay.                                            *)

hostSame == << heof, ready, connected, interrupted, window, resizes >>

WindowFits == resized /\ Terminal /\ sb_room(htx) >= HeaderSize + 1

\* Loop head: an interruption ends the relay; a window change (or a continuation,
\* which asks for one) is queued as soon as the frame fits.  It is one step here;
\* Launcher has the finer steps of the signal flags, between which one can be missed.
HostTop ==
  /\ hpc = "top"
  /\ IF interrupted
       THEN hpc' = "done" /\ result' = 130 /\ UNCHANGED << htx, resized >>
       ELSE /\ hpc' = "frames"
            /\ IF WindowFits
                 THEN htx' = sb_packet(htx, SB_WINDOW, << window >>) /\ resized' = FALSE
                 ELSE UNCHANGED << htx, resized >>
            /\ UNCHANGED result
  /\ UNCHANGED << htodo, hrx, hout, herr, received_exit, protocol_error, stdin, stdout, stderr,
                  hostSame, portVars, guestVars, shellVars >>

\* Mutant: a frame is handled whether or not its stream queue has room.
MutHostBlocked == FALSE
\* A complete output frame whose stream queue is too full stays at the head.
HostBlocked ==
  /\ sb_peek(hrx) = "frame" /\ ~received_exit
  /\ \/ PeekType(hrx) = SB_OUTPUT /\ sb_room(hout) < PeekSize(hrx)
     \/ PeekType(hrx) = SB_ERROR /\ sb_room(herr) < PeekSize(hrx)

HostProtocolError ==
  /\ hpc' = "done" /\ result' = 125 /\ received_exit' = FALSE /\ protocol_error' = TRUE
  /\ UNCHANGED << hrx, htx, hout, herr, ready >>

HostFrame ==
  /\ hpc = "frames" /\ sb_peek(hrx) = "frame" /\ ~HostBlocked
  /\ LET type == PeekType(hrx)
         size == PeekSize(hrx)
         data == PeekData(hrx)
         consumed == hrx' = FrameConsumed(hrx) /\ UNCHANGED << hpc, protocol_error >>
     IN CASE type = SB_OUTPUT /\ ~received_exit ->
               /\ consumed /\ hout' = sb_append(hout, data)
               /\ UNCHANGED << htx, herr, received_exit, ready, result >>
          [] type = SB_ERROR /\ ~received_exit ->
               /\ consumed /\ herr' = sb_append(herr, data)
               /\ UNCHANGED << htx, hout, received_exit, ready, result >>
          [] type = SB_READY /\ size = 0 /\ ~ready /\ ~received_exit ->
               /\ consumed /\ ready' = TRUE
               /\ UNCHANGED << htx, hout, herr, received_exit, result >>
          [] type = SB_EXIT /\ size = 1 /\ ~received_exit ->
               /\ consumed /\ received_exit' = TRUE /\ result' = data[1] /\ htx' = << >>
               /\ UNCHANGED << hout, herr, ready >>
          [] OTHER -> HostProtocolError
  /\ UNCHANGED << htodo, heof, connected, interrupted, resized, window, resizes,
                  stdin, stdout, stderr, portVars, guestVars, shellVars >>

\* Mutant: stdin is read again after its end.
MutStdinAgain == ~received_exit /\ sb_room(htx) >= SB_CHUNK + HeaderSize
StdinWanted == ~heof /\ ~received_exit /\ sb_room(htx) >= SB_CHUNK + HeaderSize

\* What the launcher asks poll for.  The channel is polled when it is to be read
\* or written; a hang-up is reported even when only writing was asked for ("hup").
HostEvents ==
  LET polled == connected /\ ~received_exit
  IN {e \in {"recv", "hup", "send", "stdin", "stdout", "stderr"} :
        CASE e = "recv"   -> polled /\ sb_room(hrx) >= SB_CHUNK
          [] e = "hup"    -> polled /\ sb_room(hrx) < SB_CHUNK /\ htx # << >>
          [] e = "send"   -> polled /\ htx # << >>
          [] e = "stdin"  -> StdinWanted
          [] e = "stdout" -> hout # << >>
          [] e = "stderr" -> herr # << >>}

\* What poll finds ready.
HostReady(e) ==
  CASE e = "recv" -> sock # << >> \/ gpc = "off"
    [] e = "hup"  -> gpc = "off"
    [] e = "send" -> Len(down) < ChannelCap \/ gpc = "off"
    [] OTHER      -> TRUE

\* No further frame can be handled: leave the loop, or poll.
HostPoll ==
  /\ hpc = "frames" /\ (sb_peek(hrx) # "frame" \/ HostBlocked)
  /\ \/ sb_peek(hrx) = "invalid" /\ HostProtocolError /\ UNCHANGED htodo
     \/ /\ sb_peek(hrx) # "invalid"
        /\ \/ received_exit /\ hout = << >> /\ herr = << >>
           \/ ~connected /\ sb_peek(hrx) = "incomplete" /\ ~received_exit
           \/ ~ready /\ "timeout" \in Faults
        /\ hpc' = "done"
        /\ UNCHANGED << htodo, hrx, htx, hout, herr, received_exit, ready, result, protocol_error >>
     \/ /\ sb_peek(hrx) # "invalid"
        /\ ~(received_exit /\ hout = << >> /\ herr = << >>)
        /\ ~(~connected /\ sb_peek(hrx) = "incomplete" /\ ~received_exit)
        /\ hpc' = "io" /\ htodo' = {e \in HostEvents : HostReady(e)}
        /\ UNCHANGED << hrx, htx, hout, herr, received_exit, ready, result, protocol_error >>
  /\ UNCHANGED << heof, connected, interrupted, resized, window, resizes, stdin, stdout, stderr,
                  portVars, guestVars, shellVars >>

HostOrder == [recv |-> 1, hup |-> 1, send |-> 2, stdin |-> 3, stdout |-> 4, stderr |-> 5]
HostAt(e) == hpc = "io" /\ e \in htodo /\ \A f \in htodo : HostOrder[f] >= HostOrder[e]
HostAfter(e) == {f \in htodo : HostOrder[f] > HostOrder[e]}

\* sb_receive of the channel.  At its end the launcher forgets what it had to send.
HostRecv ==
  \E e \in {"recv", "hup"} :
     /\ HostAt(e)
     /\ LET n == ReceiveSize(sock, hrx)
        IN IF sock = << >> /\ sb_room(hrx) > 0
             THEN /\ connected' = FALSE /\ htx' = << >> /\ htodo' = HostAfter(e) \ {"send"}
                  /\ UNCHANGED << hrx, sock >>
             ELSE /\ hrx' = hrx \o Take(sock, n) /\ sock' = Drop(sock, n)
                  /\ htodo' = HostAfter(e) /\ UNCHANGED << connected, htx >>
     /\ UNCHANGED << hpc, hout, herr, heof, received_exit, ready, result, protocol_error,
                     interrupted, resized, window, resizes, stdin, stdout, stderr,
                     vq, down, guestVars, shellVars >>

\* sb_flush to the channel.  Once QEMU is gone the write fails and ends the relay.
HostSend ==
  /\ HostAt("send")
  /\ IF gpc = "off"
       THEN hpc' = "done" /\ UNCHANGED << htodo, htx, down >>
       ELSE LET n == FlushSize(htx, down, ChannelCap)
            IN /\ htx' = Drop(htx, n) /\ down' = down \o Take(htx, n)
               /\ htodo' = HostAfter("send") /\ UNCHANGED hpc
  /\ UNCHANGED << hrx, hout, herr, received_exit, result, protocol_error, resized,
                  stdin, stdout, stderr, hostSame, vq, sock, guestVars, shellVars >>

\* stdin: bytes become a frame, the end becomes SB_EOF; or nothing was there yet.
HostStdin ==
  /\ HostAt("stdin")
  /\ htodo' = HostAfter("stdin")
  /\ \/ /\ stdin < InBytes
        /\ \E n \in 1 .. Smaller(SB_CHUNK, InBytes - stdin) :
             /\ htx' = sb_packet(htx, SB_INPUT, [i \in 1 .. n |-> stdin + i])
             /\ stdin' = stdin + n
        /\ UNCHANGED heof
     \/ /\ stdin = InBytes
        /\ htx' = sb_packet(htx, SB_EOF, << >>) /\ heof' = TRUE /\ UNCHANGED stdin
     \/ UNCHANGED << htx, heof, stdin >>
  /\ UNCHANGED << hpc, hrx, hout, herr, received_exit, ready, connected, result, protocol_error,
                  interrupted, resized, window, resizes, stdout, stderr,
                  portVars, guestVars, shellVars >>

\* stream_flush of one of the caller's streams: some bytes leave, none do (the stream
\* is full), or the write fails.
HostFlush(e) ==
  /\ HostAt(e)
  /\ LET q == IF e = "stdout" THEN hout ELSE herr
     IN \/ \E n \in 0 .. Len(q) :
             /\ IF e = "stdout"
                  THEN /\ hout' = Drop(hout, n) /\ stdout' = stdout \o Take(hout, n)
                       /\ UNCHANGED << herr, stderr >>
                  ELSE /\ herr' = Drop(herr, n) /\ stderr' = stderr \o Take(herr, n)
                       /\ UNCHANGED << hout, stdout >>
             /\ htodo' = HostAfter(e) /\ UNCHANGED << hpc, result >>
        \/ /\ "stdout" \in Faults
           /\ hpc' = "done" /\ result' = 141
           /\ UNCHANGED << htodo, hout, herr, stdout, stderr >>
  /\ UNCHANGED << hrx, htx, received_exit, protocol_error, resized, stdin,
                  hostSame, portVars, guestVars, shellVars >>

HostLoop ==
  /\ hpc = "io" /\ htodo = {} /\ hpc' = "top"
  /\ UNCHANGED << htodo, hrx, htx, hout, herr, received_exit, result, protocol_error, resized,
                  stdin, stdout, stderr, hostSame, portVars, guestVars, shellVars >>

HostNext == \/ HostTop \/ HostFrame \/ HostPoll \/ HostRecv \/ HostSend \/ HostStdin
            \/ HostFlush("stdout") \/ HostFlush("stderr") \/ HostLoop
-----------------------------------------------------------------------------
(* The guest's init: relay.                                                *)

Writers == child = "running" \/ job
Live == hpc # "done"     \* when the launcher leaves the relay it ends the VM

\* Mutant: detached jobs survive the shell.
MutGuestTop ==
  /\ Live /\ gpc = "top" /\ gpc' = "frames"
  /\ IF child = "zombie"
       THEN child' = "reaped" /\ status' = code /\ exited' = TRUE
       ELSE UNCHANGED << child, status, exited >>
  /\ UNCHANGED << gtodo, grx, gtx, gin, geof, sent_exit, input, output, errors, gwindow, died,
                  job, creader, code, cin, ceof, read_in, outpipe, errpipe, wrote_out, wrote_err,
                  hostVars, portVars >>
\* Reap: once the shell is gone every other process of the guest is killed.
GuestTop ==
  /\ Live /\ gpc = "top" /\ gpc' = "frames"
  /\ IF child = "zombie"
       THEN /\ child' = "reaped" /\ status' = code /\ exited' = TRUE
            /\ job' = FALSE /\ creader' = FALSE
       ELSE UNCHANGED << child, status, exited, job, creader >>
  /\ UNCHANGED << gtodo, grx, gtx, gin, geof, sent_exit, input, output, errors, gwindow, died,
                  code, cin, ceof, read_in, outpipe, errpipe, wrote_out, wrote_err,
                  hostVars, portVars >>

GuestBlocked ==
  /\ sb_peek(grx) = "frame" /\ ~geof
  /\ \/ PeekType(grx) = SB_INPUT /\ sb_room(gin) < PeekSize(grx)
     \/ PeekType(grx) = SB_EOF /\ PeekSize(grx) = 0 /\ Terminal /\ input /\ sb_room(gin) = 0

GuestDie == gpc' = "off" /\ died' = TRUE

EOT == 0     \* the control-D byte, told apart from the numbered bytes

GuestFrame ==
  /\ Live /\ gpc = "frames" /\ sb_peek(grx) = "frame" /\ ~GuestBlocked
  /\ LET type == PeekType(grx)
         size == PeekSize(grx)
         data == PeekData(grx)
         consumed == grx' = FrameConsumed(grx) /\ UNCHANGED << gpc, died >>
     IN CASE type = SB_INPUT /\ ~geof ->
               /\ consumed /\ gin' = IF input THEN sb_append(gin, data) ELSE gin
               /\ UNCHANGED << geof, gwindow >>
          [] type = SB_EOF /\ size = 0 /\ ~geof ->
               /\ consumed /\ geof' = TRUE
               /\ gin' = IF Terminal /\ input THEN Append(gin, EOT) ELSE gin
               /\ UNCHANGED gwindow
          [] type = SB_WINDOW /\ size = 1 ->
               /\ consumed /\ gwindow' = IF Terminal /\ output THEN data[1] ELSE gwindow
               /\ UNCHANGED << gin, geof >>
          [] OTHER -> GuestDie /\ UNCHANGED << grx, gin, geof, gwindow >>
  /\ UNCHANGED << gtodo, gtx, exited, status, sent_exit, input, output, errors,
                  hostVars, portVars, shellVars >>

\* Mutant: the exit is announced while output is still being read.
MutExitReady == exited /\ ~sent_exit
ExitReady == exited /\ ~output /\ ~errors /\ ~sent_exit

\* Mutant: stdin is closed with bytes still queued for it.
MutCloseInput == geof /\ ~Terminal /\ input
CloseInput == geof /\ ~Terminal /\ input /\ gin = << >>

GuestEvents(tx, in) ==
  {e \in {"recv", "send", "input", "output", "errors"} :
     CASE e = "recv"   -> sb_room(grx) >= SB_CHUNK
       [] e = "send"   -> tx # << >>
       [] e = "input"  -> in /\ gin # << >>
       [] e = "output" -> output /\ sb_room(tx) >= SB_CHUNK + HeaderSize
       [] e = "errors" -> errors /\ sb_room(tx) >= SB_CHUNK + HeaderSize}

GuestReady(e) ==
  CASE e = "recv"   -> down # << >>
    [] e = "send"   -> Len(vq) < ChannelCap
    [] e = "input"  -> Len(cin) < PipeCap \/ (~creader /\ ~Terminal)
    [] e = "output" -> outpipe # << >> \/ ~Writers
    [] e = "errors" -> errpipe # << >> \/ ~Writers

\* No further frame can be handled: close the shell's stdin after its last byte,
\* announce the exit after the last output, stop after the last byte has left, or poll.
GuestPoll ==
  /\ Live /\ gpc = "frames" /\ (sb_peek(grx) # "frame" \/ GuestBlocked)
  /\ \/ /\ sb_peek(grx) = "invalid" /\ GuestDie
        /\ UNCHANGED << gtodo, gtx, input, sent_exit, ceof >>
     \/ /\ sb_peek(grx) # "invalid"
        /\ LET send_exit == ExitReady /\ sb_room(gtx) >= HeaderSize + 1
           IN /\ input' = (input /\ ~CloseInput)
              /\ ceof' = (ceof \/ CloseInput)
              /\ gtx' = IF send_exit THEN sb_packet(gtx, SB_EXIT, << status >>) ELSE gtx
              /\ sent_exit' = (sent_exit \/ send_exit)
        /\ IF sent_exit' /\ gtx' = << >>
             THEN gpc' = "delay" /\ UNCHANGED gtodo
             ELSE gpc' = "io" /\ gtodo' = {e \in GuestEvents(gtx', input') : GuestReady(e)}
        /\ UNCHANGED died
  /\ UNCHANGED << grx, gin, geof, exited, status, output, errors, gwindow,
                  child, job, code, cin, read_in, creader, outpipe, errpipe, wrote_out, wrote_err,
                  hostVars, portVars >>

GuestOrder == [recv |-> 1, send |-> 2, input |-> 3, output |-> 4, errors |-> 5]
GuestAt(e) == /\ Live /\ gpc = "io" /\ e \in gtodo
              /\ \A f \in gtodo : GuestOrder[f] >= GuestOrder[e]
GuestAfter(e) == {f \in gtodo : GuestOrder[f] > GuestOrder[e]}

GuestRecv ==
  /\ GuestAt("recv") /\ gtodo' = GuestAfter("recv")
  /\ LET n == ReceiveSize(down, grx)
     IN grx' = grx \o Take(down, n) /\ down' = Drop(down, n)
  /\ UNCHANGED << gpc, gtx, gin, geof, exited, status, sent_exit, input, output, errors, gwindow,
                  died, vq, sock, hostVars, shellVars >>

GuestSend ==
  /\ GuestAt("send") /\ gtodo' = GuestAfter("send")
  /\ LET n == FlushSize(gtx, vq, ChannelCap)
     IN gtx' = Drop(gtx, n) /\ vq' = vq \o Take(gtx, n)
  /\ UNCHANGED << gpc, grx, gin, geof, exited, status, sent_exit, input, output, errors, gwindow,
                  died, sock, down, hostVars, shellVars >>

\* Bytes for the shell; if nobody can read them any more they are dropped.
GuestInput ==
  /\ GuestAt("input") /\ gtodo' = GuestAfter("input")
  /\ IF ~creader /\ ~Terminal
       THEN input' = FALSE /\ gin' = << >> /\ UNCHANGED cin
       ELSE LET n == FlushSize(gin, cin, PipeCap)
            IN gin' = Drop(gin, n) /\ cin' = cin \o Take(gin, n) /\ UNCHANGED input
  /\ UNCHANGED << gpc, grx, gtx, geof, exited, status, sent_exit, output, errors, gwindow, died,
                  child, job, code, ceof, read_in, creader, outpipe, errpipe, wrote_out, wrote_err,
                  hostVars, portVars >>

\* Output of the shell: a frame of what is there; at the end the stream is closed.
\* The room is tested again because the other stream may just have taken it.
GuestOutput(e) ==
  /\ GuestAt(e) /\ gtodo' = GuestAfter(e)
  /\ LET pipe == IF e = "output" THEN outpipe ELSE errpipe
         n == Smaller(Len(pipe), SB_CHUNK)
         type == IF e = "output" THEN SB_OUTPUT ELSE SB_ERROR
     IN IF sb_room(gtx) < SB_CHUNK + HeaderSize
          THEN UNCHANGED << gtx, output, errors, input, outpipe, errpipe >>
        ELSE IF pipe # << >>
          THEN /\ gtx' = sb_packet(gtx, type, Take(pipe, n))
               /\ outpipe' = IF e = "output" THEN Drop(outpipe, n) ELSE outpipe
               /\ errpipe' = IF e = "errors" THEN Drop(errpipe, n) ELSE errpipe
               /\ UNCHANGED << output, errors, input >>
          ELSE /\ output' = (output /\ e # "output")
               /\ errors' = (errors /\ e # "errors")
               /\ input' = (input /\ ~(e = "output" /\ Terminal))
               /\ UNCHANGED << gtx, outpipe, errpipe >>
  /\ UNCHANGED << gpc, grx, gin, geof, exited, status, sent_exit, gwindow, died,
                  child, job, code, cin, ceof, read_in, creader, wrote_out, wrote_err,
                  hostVars, portVars >>

GuestLoop ==
  /\ Live /\ gpc = "io" /\ gtodo = {} /\ gpc' = "top"
  /\ UNCHANGED << gtodo, grx, gtx, gin, geof, exited, status, sent_exit, input, output, errors, gwindow,
                  died, hostVars, portVars, shellVars >>

\* After the delay the VM powers off; what is still in its virtqueue is gone.  The port
\* normally drains during the delay; "early_off" is the session where it may not.
PowerDown ==
  /\ Live /\ gpc = "delay" /\ (vq # << >> => "early_off" \in Faults)
  /\ gpc' = "off" /\ vq' = << >>
  /\ UNCHANGED << gtodo, grx, gtx, gin, geof, exited, status, sent_exit, input, output, errors,
                  gwindow, died, sock, down, hostVars, shellVars >>

GuestNext == \/ GuestTop \/ GuestFrame \/ GuestPoll \/ GuestRecv \/ GuestSend \/ GuestInput
             \/ GuestOutput("output") \/ GuestOutput("errors") \/ GuestLoop \/ PowerDown
-----------------------------------------------------------------------------
(* The surroundings: QEMU's side of the port, the shell, the caller.       *)

PortMove ==
  /\ Live /\ gpc # "off" /\ vq # << >> /\ Len(sock) < ChannelCap
  /\ sock' = Append(sock, Head(vq)) /\ vq' = Tail(vq)
  /\ UNCHANGED << down, hostVars, guestVars, shellVars >>

ShellWriteOut ==
  /\ Live /\ gpc # "off" /\ Writers /\ wrote_out < OutBytes /\ Len(outpipe) < PipeCap
  /\ wrote_out' = wrote_out + 1 /\ outpipe' = Append(outpipe, wrote_out')
  /\ UNCHANGED << child, job, code, cin, ceof, read_in, creader, errpipe, wrote_err,
                  hostVars, portVars, guestVars >>
ShellWriteErr ==
  /\ Live /\ gpc # "off" /\ Writers /\ wrote_err < ErrBytes /\ Len(errpipe) < PipeCap
  /\ wrote_err' = wrote_err + 1 /\ errpipe' = Append(errpipe, wrote_err')
  /\ UNCHANGED << child, job, code, cin, ceof, read_in, creader, outpipe, wrote_out,
                  hostVars, portVars, guestVars >>
ShellRead ==
  /\ Live /\ gpc # "off" /\ child = "running" /\ creader /\ cin # << >>
  /\ read_in' = Append(read_in, Head(cin)) /\ cin' = Tail(cin)
  /\ UNCHANGED << child, job, code, ceof, creader, outpipe, errpipe, wrote_out, wrote_err,
                  hostVars, portVars, guestVars >>
ShellCloseStdin ==
  /\ Live /\ "stdin_closed" \in Faults /\ child = "running" /\ creader
  /\ creader' = FALSE
  /\ UNCHANGED << child, job, code, cin, ceof, read_in, outpipe, errpipe, wrote_out, wrote_err,
                  hostVars, portVars, guestVars >>
\* The shell exits, with or without leaving a detached job that holds its streams.
ShellExit ==
  /\ Live /\ gpc # "off" /\ child = "running"
  /\ child' = "zombie" /\ code' \in Codes /\ job' \in BOOLEAN /\ creader' = FALSE
  /\ UNCHANGED << cin, ceof, read_in, outpipe, errpipe, wrote_out, wrote_err,
                  hostVars, portVars, guestVars >>

\* SIGWINCH, or SIGCONT after a stop: the relay is to send the window size.
Resize ==
  /\ Live /\ Terminal /\ resizes < MaxResize
  /\ resizes' = resizes + 1 /\ resized' = TRUE /\ window' \in {window, window + 1}
  /\ UNCHANGED << hpc, htodo, hrx, htx, hout, herr, heof, received_exit, ready, connected, result,
                  protocol_error, interrupted, stdin, stdout, stderr,
                  portVars, guestVars, shellVars >>
Interrupt ==
  /\ Live /\ "interrupt" \in Faults /\ ~interrupted
  /\ interrupted' = TRUE
  /\ UNCHANGED << hpc, htodo, hrx, htx, hout, herr, heof, received_exit, ready, connected, result,
                  protocol_error, resized, window, resizes, stdin, stdout, stderr,
                  portVars, guestVars, shellVars >>

\* The relay has returned.
Returned == ~Live /\ UNCHANGED vars

ShellNext == \/ ShellWriteOut \/ ShellWriteErr \/ ShellRead \/ ShellCloseStdin \/ ShellExit
             \/ Resize \/ Interrupt

\* A step of one party; the session stays what it is.
Of(A) == A /\ UNCHANGED session

Next == Of(HostNext) \/ Of(GuestNext) \/ Of(PortMove) \/ Of(ShellNext) \/ Returned

\* Both relays are single-threaded loops the scheduler runs, QEMU moves what the
\* socket has room for, and a reader of the caller's streams that keeps reading lets
\* some write succeed when the relay keeps trying.  Nothing is assumed of the shell.
Fairness ==
  /\ WF_vars(Of(HostNext)) /\ WF_vars(Of(GuestNext)) /\ WF_vars(Of(PortMove))
  /\ SF_vars(Of(HostFlush("stdout") /\ stdout' # stdout))
  /\ SF_vars(Of(HostFlush("stderr") /\ stderr' # stderr))

Spec == Init /\ [][Next]_vars
FairSpec == Spec /\ Fairness
-----------------------------------------------------------------------------
(* Properties. *)

Count(n) == [i \in 1 .. n |-> i]
IsPrefixOf(s, n) == Len(s) <= n /\ s = Count(Len(s))

\* Type correctness, and no queue beyond its capacity.
TypeOK ==
  /\ session \in Sessions
  /\ hpc \in {"top", "frames", "io", "done"} /\ gpc \in {"top", "frames", "io", "delay", "off"}
  /\ htodo \subseteq DOMAIN HostOrder /\ gtodo \subseteq DOMAIN GuestOrder
  /\ \A q \in {hrx, htx, hout, herr, grx, gtx, gin} : q \in Seq(Nat) /\ Len(q) <= SB_QUEUE
  /\ \A q \in {vq, sock, down} : q \in Seq(Nat) /\ Len(q) <= ChannelCap
  /\ \A q \in {cin, outpipe, errpipe} : q \in Seq(Nat) /\ Len(q) <= PipeCap
  /\ child \in {"running", "zombie", "reaped"} /\ result \in Nat

\* The shell reads a prefix of the caller's stdin, then (on a terminal) control-D.
StdinInOrder ==
  \/ IsPrefixOf(read_in, InBytes)
  \/ Terminal /\ read_in = Append(Count(InBytes), EOT)

\* "Pipe input streams with EOF": the shell's stdin ends only after every byte of
\* the caller's stdin has been handed to it.
EofAfterAllInput == ceof => read_in \o cin = Count(InBytes)

\* "stdout and stderr stay separate": what the caller's streams got is, at every
\* moment and through any split of frames and headers, a prefix of what the shell
\* wrote to that stream: nothing lost in between, duplicated, reordered or mixed.  The
\* same holds of stdin in the other direction, to its end, and no queue of the seven
\* stages overflows.
StreamsInOrder ==
  /\ TypeOK
  /\ IsPrefixOf(stdout, wrote_out) /\ IsPrefixOf(stderr, wrote_err)
  /\ StdinInOrder /\ EofAfterAllInput

\* A session that reports the guest's exit reports the shell's own code, and has
\* by then written everything the shell and its jobs ever wrote.
CompleteOnExit ==
  hpc = "done" /\ received_exit /\ result \notin {130, 141}
  => result = code /\ stdout = Count(wrote_out) /\ stderr = Count(wrote_err)

\* Neither relay ever sees a frame it does not expect, whatever the order of
\* input, end of input, window changes, exit and READY.
NoProtocolError == ~protocol_error /\ ~died

\* "the guest's exit status is returned": once the guest has announced its exit, a
\* session the caller did not disturb returns that code.
ExitStatusReturned ==
  hpc = "done" /\ sent_exit /\ ~interrupted /\ ready /\ result # 141 => result = code

\* When the shell has exited the session ends, whatever is still queued in any of
\* the stages, if the two relays and QEMU run and the caller's streams accept bytes.
SessionEnds == child = "zombie" ~> hpc = "done"

=============================================================================
