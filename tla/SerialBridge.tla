---------------------------- MODULE SerialBridge ----------------------------
(***************************************************************************)
(* The serial line from the ESP32 to the bridge application: the frames    *)
(* that the firmware writes, the bytes on their way, lost or dropped, and  *)
(* the reader that looks for a frame in what read() gives it.              *)
(*                                                                         *)
(* The firmware, the line and the bridge are concurrent.  A byte is known  *)
(* by the frame and the place it comes from, so that a published reading   *)
(* can be told from one that was never sent.                               *)
(***************************************************************************)
EXTENDS Integers, Sequences, FiniteSets

CONSTANTS
  Readings,         \* temperature and humidity in hundredths, in the order sent
  FirstCount,       \* sequenceCount of the first of them
  TtyDepth,         \* bytes that the terminal driver holds
  LossBound,        \* bytes lost on the line,
  SplitBound,       \* transfers that hand over part of what is on the line,
  CutBound          \* and unplugs and restarts of the bridge that are explored

Frames == DOMAIN Readings

VARIABLES
  sent,             \* frames written by the firmware
  line,             \* bytes on the line,
  tty,              \* and in the terminal driver
  plugged,          \* the device is there
  fd,               \* SerialFd: open, hung up by an unplug, or closed (-1)
  window,           \* sync_window
  pc, pktLen,       \* which read comes next, and pkt_len
  published,        \* telemetry sent, as the bytes it was made of
  gaps, cuts,       \* losses of bytes; unplugs and restarts
  splits,           \* transfers that were not whole
  shorts,           \* reads of less than was asked for
  missed            \* frames of which a byte never reached the reader

bridgeVars == <<fd, window, pc, pktLen, published, shorts>>
vars == <<sent, line, tty, plugged, bridgeVars, gaps, cuts, splits, missed>>

-----------------------------------------------------------------------------
(* The frame.                                                              *)

SYNC == <<170, 85>>                    \* SYNC_BYTES, 0xAA 0x55
FaultyMinLen == 18                     \* Fault: the marker and length counted in
MinLen == 14                           \* ESP32_BRIDGE_APP_SENSOR_PKT_MIN_LEN
BufLen == 64                           \* sizeof(buf)

Hi(n) == n \div 256
Lo(n) == n % 256

\* createPacketAndSend: the marker, the length in native order, a primary
\* header and a secondary header in network order.
Content(f) ==
  SYNC \o <<14, 0>> \o
  <<8, 150, 192 + Hi((FirstCount + f - 1) % 16384), Lo((FirstCount + f - 1) % 16384), 0, 7>> \o
  <<0, 0, 0, 0, Hi(Readings[f].temp), Lo(Readings[f].temp),
    Hi(Readings[f].humid), Lo(Readings[f].humid)>>

FrameLen == 18
Bytes(f) == [p \in 1 .. FrameLen |-> [frame |-> f, place |-> p]]
Value(b) == Content(b.frame)[b.place]

ASSUME SerialAssumption ==
  /\ Readings \in Seq([temp : Nat, humid : Nat])
  /\ \A f \in Frames : Readings[f].temp <= 5000 /\ Readings[f].humid <= 10000
  /\ FirstCount \in Nat /\ TtyDepth \in Nat
  /\ LossBound \in Nat /\ SplitBound \in Nat /\ CutBound \in Nat

FramesOf(bytes) == {bytes[i].frame : i \in DOMAIN bytes}

-----------------------------------------------------------------------------
Init == /\ sent = 0 /\ line = <<>> /\ tty = <<>> /\ plugged = TRUE
        /\ fd = "open" /\ window = <<0, 0>> /\ pc = "scan" /\ pktLen = 0
        /\ published = <<>>
        /\ gaps = 0 /\ cuts = 0 /\ splits = 0 /\ shorts = 0 /\ missed = {}

-----------------------------------------------------------------------------
(* The firmware and the line.                                              *)

\* The task writes a frame every two seconds, long after the last one left.
Send == /\ line = <<>> /\ sent < Len(Readings)
        /\ sent' = sent + 1
        /\ line' = IF plugged THEN Bytes(sent + 1) ELSE <<>>
        /\ missed' = IF plugged THEN missed ELSE missed \cup {sent + 1}
        /\ UNCHANGED <<tty, plugged, bridgeVars, gaps, cuts, splits>>

\* A transfer hands over some of the bytes; the driver drops what it has no
\* room for, and everything while the port is not open.
Deliver ==
  /\ line # <<>>
  /\ \E k \in 1 .. Len(line) :
       /\ splits' = IF k < Len(line) THEN splits + 1 ELSE splits
       /\ splits' <= SplitBound
       /\ LET room == IF fd = "open" THEN TtyDepth - Len(tty) ELSE 0
              kept == IF k <= room THEN k ELSE room IN
         /\ tty' = tty \o SubSeq(line, 1, kept)
         /\ line' = SubSeq(line, k + 1, Len(line))
         /\ missed' = missed \cup FramesOf(SubSeq(line, kept + 1, k))
         /\ gaps' = IF fd = "open" /\ kept < k THEN gaps + 1 ELSE gaps
  /\ UNCHANGED <<sent, plugged, bridgeVars, cuts>>

\* The next byte is lost on the line.
Lose == /\ gaps < LossBound /\ line # <<>>
        /\ gaps' = gaps + 1
        /\ missed' = missed \cup {Head(line).frame}
        /\ line' = Tail(line)
        /\ UNCHANGED <<sent, tty, plugged, bridgeVars, cuts, splits>>

\* The cable is pulled, with what is on its way; the open port hangs up for
\* good, and has to be opened again when the device is back.
Unplug == /\ cuts < CutBound /\ plugged
          /\ cuts' = cuts + 1
          /\ plugged' = FALSE
          /\ fd' = IF fd = "open" THEN "hungup" ELSE fd
          /\ line' = <<>> /\ tty' = <<>>
          /\ missed' = missed \cup FramesOf(line) \cup FramesOf(tty)
          /\ UNCHANGED <<sent, window, pc, pktLen, published, shorts, gaps, splits>>

Plug == /\ ~ plugged /\ plugged' = TRUE
        /\ UNCHANGED <<sent, line, tty, bridgeVars, gaps, cuts, splits, missed>>

-----------------------------------------------------------------------------
(* The bridge.                                                             *)

LineAlone == UNCHANGED <<sent, line, plugged, gaps, cuts, splits>>

\* ESP32_BRIDGE_APP_OpenSerial flushes what the driver holds.
Opened == /\ fd' = "open"
          /\ tty' = <<>> /\ missed' = missed \cup FramesOf(tty)

Open == /\ fd = "closed" /\ plugged
        /\ Opened
        /\ UNCHANGED <<window, pc, pktLen, published, shorts>> /\ LineAlone

\* HS has the bridge started anew: ESP32_BRIDGE_APP_Init tries the port once.
Restart == /\ cuts < CutBound /\ cuts' = cuts + 1
           /\ window' = <<0, 0>> /\ pc' = "scan" /\ pktLen' = 0
           /\ IF plugged THEN Opened ELSE fd' = "closed" /\ UNCHANGED <<tty, missed>>
           /\ UNCHANGED <<sent, line, plugged, gaps, splits, published, shorts>>

\* A scan that finds the device gone closes the port.
DeviceLost == /\ fd = "hungup" /\ pc = "scan"
              /\ fd' = "closed"
              /\ UNCHANGED <<tty, missed, window, pc, pktLen, published, shorts>>
              /\ LineAlone

\* One byte at a time until the last two are the marker, wherever the first
\* of them came from.
Scan == /\ fd = "open" /\ pc = "scan" /\ tty # <<>>
        /\ window' = <<window[2], Value(Head(tty))>>
        /\ tty' = Tail(tty)
        /\ pc' = IF window' = SYNC THEN "length" ELSE "scan"
        /\ UNCHANGED <<fd, pktLen, published, shorts, missed>> /\ LineAlone

\* A read gives what is there, up to what is asked for, as soon as there is
\* a byte (VMIN 1); on a port that has hung up it gives nothing.
Ready == fd = "hungup" \/ (fd = "open" /\ tty # <<>>)
Got(n) == SubSeq(tty, 1, IF Len(tty) < n THEN Len(tty) ELSE n)
Taken(n) == tty' = SubSeq(tty, Len(Got(n)) + 1, Len(tty))

Short == /\ pc' = "scan" /\ shorts' = shorts + 1
         /\ UNCHANGED <<window, pktLen, published>>

ValidLength(n) == n >= MinLen /\ n <= BufLen

ReadLength ==
  /\ pc = "length" /\ Ready
  /\ Taken(2)
  /\ LET got == Got(2) IN
       IF Len(got) < 2 THEN Short
       ELSE LET n == Value(got[1]) + 256 * Value(got[2]) IN
         /\ pktLen' = n
         /\ IF ValidLength(n) THEN pc' = "body" /\ UNCHANGED window
                              ELSE pc' = "scan" /\ window' = <<0, 0>>
         /\ UNCHANGED <<published, shorts>>
  /\ UNCHANGED <<fd, missed>> /\ LineAlone

\* The reading is taken from bytes 10 to 13 (ParseSensorPacket), published,
\* and the bridge sleeps.
\* Fault: a short packet is published with what is in the buffer.
FaultyComplete(got, n) == Len(got) >= MinLen - 4

Complete(got, n) == Len(got) = n

ReadBody ==
  /\ pc = "body" /\ Ready
  /\ Taken(pktLen)
  /\ LET got == Got(pktLen) IN
       IF ~ Complete(got, pktLen) THEN Short
       ELSE /\ published' = Append(published, got)
            /\ pc' = "scan"
            /\ UNCHANGED <<window, pktLen, shorts>>
  /\ UNCHANGED <<fd, missed>> /\ LineAlone

-----------------------------------------------------------------------------
Line == Send \/ Deliver \/ Lose \/ Unplug \/ Plug
Bridge == Open \/ Restart \/ DeviceLost \/ Scan \/ ReadLength \/ ReadBody

Next == Line \/ Bridge

Spec == Init /\ [][Next]_vars

-----------------------------------------------------------------------------
(* Properties.                                                             *)

\* A reading as it was sent: the whole body of one frame.
Genuine(got) == \E f \in Frames : got = SubSeq(Bytes(f), 5, FrameLen)
Wrong == {i \in DOMAIN published : ~ Genuine(published[i])}

\* A loss of bytes spoils at most one reading, and so does an unplug: the
\* window of the scan outlives the port, so the last byte before the cable was
\* pulled and the first after it may make a marker that nobody sent.  Nothing
\* else spoils one, neither a transfer that splits a frame nor a short read.
WrongReadingsBounded == Cardinality(Wrong) <= gaps + cuts

\* A frame of which every byte reached the reader has been published once it
\* is scanning again, except one for each read that came up short, and for
\* each loss or unplug those that the body after a false marker takes in.
PassedBy == {f \in 1 .. sent : f \notin missed /\ f \notin FramesOf(line \o tty)}
Published == {f \in Frames : \E i \in DOMAIN published :
                published[i] = SubSeq(Bytes(f), 5, FrameLen)}
TakenIn == ((IF TtyDepth < BufLen THEN TtyDepth ELSE BufLen) + FrameLen - 1) \div FrameLen
WholeFramesPublished ==
  pc = "scan" => Cardinality(PassedBy \ Published) <= shorts + TakenIn * (gaps + cuts)

=============================================================================
