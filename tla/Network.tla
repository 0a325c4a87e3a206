------------------------------ MODULE Network -------------------------------
(***************************************************************************)
(* The RTL8139 driver with its one TCP client (drivers/net/rtl8139.c), the *)
(* checksums, and the ping over virtio (net/stack.c, kernel/ping.c,        *)
(* drivers/net/virtio_net.c).  Nothing in the kernel calls these functions *)
(* yet; here any of them may be called at any time.  Hosts and the network *)
(* are the environment: a frame that was sent may arrive, later, twice or  *)
(* not at all.  The driver hands the card an array of its stack that is    *)
(* gone when the card reads it; a frame that is spoilt counts as lost.     *)
(***************************************************************************)
EXTENDS Integers, Sequences, SequencesExt

CONSTANTS
  RingLen,     \* 8192
  RxBytes,     \* 9708: the buffer is longer than the ring, for a frame that begins at its end
  FrameLens,   \* kind of frame |-> its packet_len, with header, data and CRC
  Headers,     \* bytes of a TCP frame that are no content, 54 + 4
  Hosts, Numbers, \* hosts of the network; sequence numbers are taken modulo 2^32
  ISN,         \* host |-> its first sequence number
  MaxFrames,   \* bound: frames that arrive in a run
  MaxCalls,    \* bound: calls of the senders
  ChecksumData, \* sequences of bytes
  UsedIndex    \* what is at the address that rx_used holds, where nothing was put

Spill == 2 \* bytes that the buffer is too short
UINT8_MAX == 255
UINT16_MAX == 65535
FrameKinds == {"arpreply", "pong", "synack", "data", "more"}
ASSUME NetworkAssumption ==
  /\ RingLen \in Nat /\ RingLen >= 4 /\ RingLen <= 65536 /\ RingLen % 4 = 0
  /\ FrameLens \in [FrameKinds -> 4..(RingLen \div 2)]
  /\ RxBytes \in Nat /\ \A k \in FrameKinds : RingLen + FrameLens[k] <= RxBytes + Spill \* 1518
  /\ Headers \in Nat /\ FrameLens["data"] > Headers /\ FrameLens["more"] > Headers
  /\ Numbers \in Nat \ {0} /\ ISN \in [Hosts -> Nat]
  /\ \A b \in ChecksumData : b \in Seq(0..UINT8_MAX) /\ Len(b) <= 65535 \* no sum overflows
  /\ MaxFrames \in Nat /\ MaxCalls \in Nat /\ UsedIndex \in Nat

VARIABLES
  rx_buffer,   \* offset |-> the frame that was put there
  rx_ptr, capr, \* the driver's place in it, and the register that follows it
  cardPtr,     \* the card's place
  unread,      \* history: frames the card put there and the driver did not take
  gateway_mac, \* "zero", "forced" or a host
  tcp_seq, tcp_ack,
  wire,        \* frames that were sent by the driver
  inbound,     \* frames that hosts sent to it
  shownWeb,    \* what was printed: content of frames
  taken,       \* history: frames the driver took
  checksums,   \* last checked bytes, and both sums
  ping,        \* [at, ticks, last tick of a poll, reply]: of run_real_ping and do_ping
  last_seen_idx,
  astray,      \* history: the card began anew and the driver's place was not 0
  arrived, calls

netVars == <<rx_buffer, rx_ptr, capr, cardPtr, unread, gateway_mac, tcp_seq, tcp_ack, wire,
             inbound, shownWeb, taken, checksums, ping, last_seen_idx, astray, arrived, calls>>
ring == <<rx_buffer, rx_ptr, capr, cardPtr, unread, astray, arrived>>
tcp == <<gateway_mac, tcp_seq, tcp_ack>>
virtio == <<ping, last_seen_idx>>
seen == <<shownWeb, taken>>

NoPing == [at |-> "no", ticks |-> 0, last |-> 0, reply |-> FALSE]
FirstSeq == 5 % Numbers
NetInit ==
  /\ rx_buffer = [o \in {} |-> 0] /\ rx_ptr = 0 /\ capr = 65536 - 16 /\ cardPtr = 0 /\ unread = <<>>
  /\ gateway_mac = "zero" /\ tcp_seq = FirstSeq /\ tcp_ack = 0
  /\ wire = {} /\ inbound = {} /\ shownWeb = <<>> /\ taken = <<>>
  /\ checksums = <<>> /\ ping = NoPing /\ last_seen_idx = 0 /\ astray = FALSE
  /\ arrived = 0 /\ calls = 0

-----------------------------------------------------------------------------
(* Checksums, over words of two bytes                                       *)

Word(hi, lo) == 256 * hi + lo
Htons(v) == (v % 256) * 256 + v \div 256
Words(bytes) == [i \in 1..((Len(bytes) + 1) \div 2) |->
                   <<bytes[2 * i - 1], IF 2 * i <= Len(bytes) THEN bytes[2 * i] ELSE 0>>]

AddWord_NoCarry(acc, w) == (acc + w) % 65536
AddWord(acc, w) == IF acc + w > UINT16_MAX THEN acc + w - UINT16_MAX ELSE acc + w

\* net_checksum adds the words as the network writes them and turns the result
NetSum(ws) ==
  LET acc[i \in 0..Len(ws)] ==
        IF i = 0 THEN UINT16_MAX ELSE AddWord(acc[i - 1], Word(ws[i][1], ws[i][2]))
  IN acc[Len(ws)]
NetChecksum(bytes) == Htons(UINT16_MAX - NetSum(Words(bytes)))

\* calculate_checksum adds them as the processor reads them and folds at the end
ProcessorSum(ws) ==
  LET sum[i \in 0..Len(ws)] == IF i = 0 THEN 0 ELSE sum[i - 1] + Word(ws[i][2], ws[i][1])
  IN sum[Len(ws)]
Halves(n) == (n % 65536) + (n \div 65536)
Folded(sum) ==
  LET fold[n \in Nat] == IF n > UINT16_MAX THEN fold[Halves(n)] ELSE n
  IN fold[sum]
CalculateChecksum(bytes) == UINT16_MAX - Folded(ProcessorSum(Words(bytes)))

Checksum(bytes) ==
  /\ checksums = <<>> /\ calls = 0 /\ arrived = 0
  /\ checksums' = <<bytes, NetChecksum(bytes), CalculateChecksum(bytes)>>
  /\ UNCHANGED <<wire, inbound, calls>> /\ UNCHANGED ring /\ UNCHANGED tcp
  /\ UNCHANGED virtio /\ UNCHANGED seen

-----------------------------------------------------------------------------
(* Sending                                                                  *)

NetCall == calls < MaxCalls /\ calls' = calls + 1
\* Before rtl8139_init the senders write to ports 0x10 and 0x20, which are not the card's
Started == gateway_mac /= "zero"
Sends(frames) == /\ wire' = wire \union (IF Started THEN frames ELSE {})
                 /\ UNCHANGED <<inbound, checksums>> /\ UNCHANGED ring /\ UNCHANGED virtio /\ UNCHANGED seen

Frame(kind, host, seq, ack) == [kind |-> kind, host |-> host, seq |-> seq, ack |-> ack]

\* rtl8139_init: the card starts over at 0 and forgets what it took in, the static
\* rx_ptr stays, and the gateway's address is written down
Rtl8139Init ==
  /\ NetCall
  /\ cardPtr' = 0 /\ capr' = 65536 - 16 /\ unread' = <<>>
  /\ astray' = (rx_ptr /= 0)
  /\ gateway_mac' = "forced"
  /\ UNCHANGED <<rx_buffer, rx_ptr, arrived, tcp_seq, tcp_ack, wire, inbound, checksums>>
  /\ UNCHANGED virtio /\ UNCHANGED seen
SendArpRequest == NetCall /\ Sends({Frame("arp", "gateway", 0, 0)}) /\ UNCHANGED tcp
SendPing(h) == NetCall /\ Sends({Frame("echo", h, 0, 0)}) /\ UNCHANGED tcp
\* mini_curl: without a gateway it prints an error
MiniCurl(h) ==
  /\ NetCall /\ Started
  /\ Sends({Frame("syn", h, tcp_seq, 0)}) /\ UNCHANGED tcp

-----------------------------------------------------------------------------
(* The environment: what hosts answer, and what the card takes in           *)

Answers(f) ==
  CASE f.kind = "arp" -> {Frame("arpreply", f.host, 0, 0)}
    [] f.kind = "echo" -> {Frame("pong", f.host, 0, 0)}
    [] f.kind = "syn" -> {Frame("synack", f.host, ISN[f.host], (f.seq + 1) % Numbers)}
    [] f.kind = "get" -> {Frame("data", f.host, f.ack, 1), Frame("more", f.host, f.ack, 2)}
    [] f.kind = "ack" -> {}

HostAnswers ==
  /\ \E f \in wire : inbound' = inbound \union Answers(f) /\ inbound' /= inbound
  /\ UNCHANGED <<wire, checksums, calls>> /\ UNCHANGED ring /\ UNCHANGED tcp
  /\ UNCHANGED virtio /\ UNCHANGED seen

Aligned(ptr, len) == ((ptr + len + 4 + 3) \div 4) * 4
\* With the register 16 behind its place the driver tells how far it is
DriverAt == ((capr + 16) % 65536) % RingLen
RoomInRing == IF unread = <<>> THEN RingLen
              ELSE (DriverAt - cardPtr + RingLen) % RingLen
CardReceives(f) ==
  /\ Started /\ arrived < MaxFrames /\ arrived' = arrived + 1
  /\ RoomInRing > FrameLens[f.kind] + 8
  /\ rx_buffer' = [o \in DOMAIN rx_buffer \union {cardPtr} |-> IF o = cardPtr THEN f ELSE rx_buffer[o]]
  /\ cardPtr' = Aligned(cardPtr, FrameLens[f.kind]) % RingLen
  /\ unread' = Append(unread, f)
  /\ UNCHANGED <<rx_ptr, capr, astray, wire, inbound, checksums, calls>>
  /\ UNCHANGED tcp /\ UNCHANGED virtio /\ UNCHANGED seen

-----------------------------------------------------------------------------
(* rtl8139_handler: one turn of its loop                                    *)

NextPtr_NoHeader(ptr, len) ==
  LET p == ((ptr + len + 3) \div 4) * 4 IN IF p >= RingLen THEN p - RingLen ELSE p
NextPtr(ptr, len) ==
  LET p == Aligned(ptr, len) IN IF p >= RingLen THEN p - RingLen ELSE p

\* Content that is printed: a frame with PSH, or any longer one, of TCP
DataOf(f) ==
  IF f.kind \in {"data", "more"} /\ FrameLens[f.kind] > Headers THEN <<f>> ELSE <<>>

AckOf(f) == (f.seq + 1) % Numbers

Rtl8139Handler ==
  /\ unread /= <<>> /\ rx_ptr \in DOMAIN rx_buffer
  /\ LET f == rx_buffer[rx_ptr] IN
     /\ gateway_mac' = IF f.kind = "arpreply" THEN f.host ELSE gateway_mac
     /\ IF f.kind = "synack"
        THEN /\ tcp_ack' = AckOf(f) /\ tcp_seq' = f.ack
             /\ wire' = wire \union {Frame("ack", f.host, f.ack, AckOf(f)),
                                     Frame("get", f.host, f.ack, AckOf(f))}
        ELSE UNCHANGED <<tcp_ack, tcp_seq, wire>>
     /\ shownWeb' = shownWeb \o DataOf(f)
     /\ taken' = Append(taken, f)
     /\ rx_ptr' = NextPtr(rx_ptr, FrameLens[f.kind])
     /\ capr' = (rx_ptr' - 16) % 65536
  /\ unread' = Tail(unread)
  /\ UNCHANGED <<rx_buffer, cardPtr, astray, arrived, inbound, checksums, calls>> /\ UNCHANGED virtio

-----------------------------------------------------------------------------
(* Ping over virtio: run_real_ping sends and polls, do_ping only polls.     *)
(* rx_used is never set, so a poll compares with what happens to be there.  *)

PING_TICKS == 2
StartPing(last) ==
  /\ NetCall /\ ping.at = "no" /\ ping' = [NoPing EXCEPT !.at = "wait", !.last = last]
  /\ UNCHANGED <<wire, inbound, checksums, last_seen_idx>>
  /\ UNCHANGED ring /\ UNCHANGED tcp /\ UNCHANGED seen
\* One polls before the time is over, the other at that tick too
RunRealPing == StartPing(PING_TICKS - 1)
DoPing == StartPing(PING_TICKS)
\* virtio_net_poll_rx within the time, or the time is over
PollRx ==
  /\ ping.at = "wait"
  /\ IF UsedIndex /= last_seen_idx
     THEN last_seen_idx' = (last_seen_idx + 1) % 65536 /\ ping' = [ping EXCEPT !.at = "no", !.reply = TRUE]
     ELSE /\ UNCHANGED last_seen_idx
          /\ ping' = IF ping.ticks < ping.last THEN [ping EXCEPT !.ticks = @ + 1]
                     ELSE [ping EXCEPT !.at = "no"]
  /\ UNCHANGED <<wire, inbound, checksums, calls>> /\ UNCHANGED ring /\ UNCHANGED tcp /\ UNCHANGED seen

\* A driver that is astray reads the middle of frames, and lengths from there: a run
\* ends (a bound)
NetNext ==
  checksums = <<>> /\ ~astray /\
  (\/ Rtl8139Init \/ SendArpRequest \/ HostAnswers \/ Rtl8139Handler \/ RunRealPing \/ DoPing \/ PollRx
   \/ \E h \in Hosts : SendPing(h) \/ MiniCurl(h)
   \/ \E f \in inbound : CardReceives(f)
   \/ \E bytes \in ChecksumData : Checksum(bytes))

NetSpec == NetInit /\ [][NetNext]_netVars

NetTypeOK ==
  /\ rx_ptr \in 0..(RingLen - 1) /\ cardPtr \in 0..(RingLen - 1) /\ capr \in 0..UINT16_MAX
  /\ tcp_seq \in 0..(Numbers - 1) /\ tcp_ack \in 0..(Numbers - 1)
  /\ astray \in BOOLEAN /\ arrived \in 0..MaxFrames /\ calls \in 0..MaxCalls

-----------------------------------------------------------------------------
\* What is printed of frames: those with content
Printed(frames) ==
  LET p[i \in 0..Len(frames)] ==
        IF i = 0 THEN <<>>
        ELSE IF frames[i].kind \in {"data", "more"} THEN Append(p[i - 1], frames[i]) ELSE p[i - 1]
  IN p[Len(frames)]

\* Words, and a checksum as the network has it, add up to this
Total(c, ws) ==
  LET t[i \in 0..Len(ws)] == IF i = 0 THEN Htons(c) ELSE t[i - 1] + Word(ws[i][1], ws[i][2])
  IN t[Len(ws)]

\* The driver is where the oldest frame begins that it did not take, however
\* long the frames are and wherever the ring wraps, until the card is initialised
\* again behind the driver's back; no more of a frame than half of its CRC lies
\* behind the buffer; both checksums bring the sum
\* of what they were taken over to all ones; the numbers of a GET are those of a
\* SYN-ACK of its host, one past the SYN's; and what is printed is the content of
\* the frames in the order in which they came, each as often as it came.
NetworkSound ==
  /\ ~astray =>
       /\ IF unread = <<>> THEN rx_ptr = cardPtr
          ELSE rx_ptr \in DOMAIN rx_buffer /\ rx_buffer[rx_ptr] = Head(unread)
       /\ DriverAt = rx_ptr
  /\ \A o \in DOMAIN rx_buffer : o + 4 + FrameLens[rx_buffer[o].kind] <= RxBytes + Spill
  /\ checksums /= <<>> =>
       LET ws == Words(checksums[1])
       IN Total(checksums[2], ws) % UINT16_MAX = 0 /\ Total(checksums[3], ws) % UINT16_MAX = 0
  /\ \A g \in wire : g.kind = "get" =>
       /\ g.ack = (ISN[g.host] + 1) % Numbers
       /\ \E s \in wire : s.kind = "syn" /\ s.host = g.host /\ g.seq = (s.seq + 1) % Numbers
  /\ shownWeb = Printed(taken)
=============================================================================
