------------------------------ MODULE Devices ------------------------------
(***************************************************************************)
(* Devices: small drivers that keep state between calls: the PS/2 mouse    *)
(* (drivers/input/mouse/8042/mouse.c), the modifiers of the terminals'     *)
(* keyboard (drivers/video/vt/keyboard.c), the addresses of the USB bus    *)
(* (drivers/usb/usb_core.c, usb_hub.c), the accelerometer                  *)
(* (drivers/accel/core.c), and the page tables that vmm_map fills for the  *)
(* frame buffer (arch/x86/vmm.c, drivers/video/fb.c).                      *)
(***************************************************************************)
EXTENDS Integers, Sequences, SequencesExt, FiniteSets, FiniteSetsExt

CONSTANTS
  Moves,            \* what a mouse may report for an axis
  MAX_USB_DEVICES,
  Samples,          \* what the sensor measures, <<x, y, z>>
  TableEntries,     \* pages that one page table maps
  DirectoryEntries, \* page tables, without the one that maps the tables themselves
  TableFrames,      \* what pmm_alloc_frame has left
  FrameBufferPages, \* size of the frame buffer
  MaxDeviceCalls    \* bound: calls in a run

DevicesAssumption ==
  /\ Moves \subseteq -256..255 /\ Samples \subseteq Int \X Int \X Int /\ MAX_USB_DEVICES \in Nat \ {0} /\ MaxDeviceCalls \in Nat
  /\ TableEntries \in Nat \ {0} /\ DirectoryEntries \in Nat \ {0}
  /\ TableFrames \subseteq Nat \ {0} /\ FrameBufferPages \in Nat
ASSUME DevicesAssumption

VARIABLES
  mouse,      \* [cycle, byte, x, y]
  reported,   \* bytes the mouse has yet to send, its flags as a record
  moved,      \* history: where the whole reports taken have led, and how many were wide
  down,       \* keys held
  modifiers,  \* those of shift, ctrl and alt that are set
  usb,        \* [next, table: address |-> port, attached: ports with a device]
  zeroed,     \* the calibration, and what the sensor measured meanwhile
  paging,     \* [directory: index |-> frame, tables: frame |-> its entries, left: free frames]
  asked,      \* history: page |-> the entry last asked for
  deviceCalls

mouseVars == <<mouse, reported, moved>>
keyVars == <<down, modifiers>>
pagingVars == <<paging, asked>>
devicesVars == <<mouseVars, keyVars, usb, zeroed, pagingVars, deviceCalls>>

DeviceCall == deviceCalls < MaxDeviceCalls /\ deviceCalls' = deviceCalls + 1

-----------------------------------------------------------------------------
(* The mouse: three bytes make a report *)

Signed8(v) == ((v + 128) % 256) - 128
\* rel |= 0xFFFFFF00
Extended(b) == IF b < 0 THEN b ELSE b - 256
Rel_KeepsSign(negative, b) == b
Rel(negative, b) == IF negative THEN Extended(b) ELSE b
\* A move of 128 to 255: its byte is negative in an int8_t, its flag is not
Wide(move) == IF move > 127 THEN 1 ELSE 0

MouseMoves(dx, dy) ==
  /\ DeviceCall /\ reported = <<>>
  /\ reported' = <<[xneg |-> dx < 0, yneg |-> dy < 0],
                   [byte |-> dx % 256, by |-> dx], [byte |-> dy % 256, by |-> dy]>>
  /\ UNCHANGED <<mouse, moved, keyVars, usb, zeroed, pagingVars>>

\* A byte is in the port; the keyboard's, without the flag 0x20, stays there
MouseHandler ==
  /\ reported # <<>> /\ reported' = Tail(reported)
  /\ LET got == Append(mouse.byte, Head(reported)) IN
     IF mouse.cycle < 2
     THEN /\ mouse' = [cycle |-> mouse.cycle + 1, byte |-> got, x |-> mouse.x, y |-> mouse.y]
          /\ UNCHANGED moved
     ELSE /\ mouse' = [cycle |-> 0, byte |-> <<>>,
                       x |-> mouse.x + Rel(got[1].xneg, Signed8(got[2].byte)),
                       y |-> mouse.y - Rel(got[1].yneg, Signed8(got[3].byte))]
          /\ moved' = [x |-> moved.x + got[2].by, y |-> moved.y - got[3].by,
                       wideX |-> moved.wideX + Wide(got[2].by), wideY |-> moved.wideY + Wide(got[3].by)]
  /\ UNCHANGED <<keyVars, usb, zeroed, pagingVars, deviceCalls>>

-----------------------------------------------------------------------------
(* Keyboard modifiers: the right ctrl and alt have the codes of the left behind a
   prefix, which is taken for the release of a key without a meaning *)

Keys == {"lshift", "rshift", "ctrl", "rctrl", "alt", "a"}
ModifierOf(key) ==
  CASE key \in {"lshift", "rshift"} -> {"shift"} [] key \in {"ctrl", "rctrl"} -> {"ctrl"}
    [] key = "alt" -> {"alt"} [] OTHER -> {}
ReleaseClears_LeftOnly(key) == IF key = "rshift" THEN {} ELSE ModifierOf(key)
ReleaseClears(key) == ModifierOf(key)

\* A key that is held repeats
Press(key) ==
  /\ DeviceCall /\ down' = down \union {key} /\ modifiers' = modifiers \union ModifierOf(key)
  /\ UNCHANGED <<mouseVars, usb, zeroed, pagingVars>>
Release(key) ==
  /\ key \in down /\ down' = down \ {key} /\ modifiers' = modifiers \ ReleaseClears(key)
  /\ UNCHANGED <<mouseVars, usb, zeroed, pagingVars, deviceCalls>>

-----------------------------------------------------------------------------
(* USB: a device that leaves gives its address not back *)

UsbPortStatusChanged(port, connected) ==
  /\ DeviceCall /\ (connected <=> port \notin usb.attached)
  /\ LET attached == IF connected THEN usb.attached \union {port} ELSE usb.attached \ {port} IN
     usb' = IF connected /\ usb.next < MAX_USB_DEVICES
            THEN [next |-> usb.next + 1, table |-> Append(usb.table, port), attached |-> attached]
            ELSE [usb EXCEPT !.attached = attached]
  /\ UNCHANGED <<mouseVars, keyVars, zeroed, pagingVars>>

-----------------------------------------------------------------------------
(* The accelerometer, in shorts.  z is put together from the high byte of z and the
   high byte of y (core.c:42).  A hundred samples are added up in a short.           *)

Short(n) == ((n + 32768) % 65536) - 32768
High(n) == (n % 65536) \div 256
AdxlRead(s) == <<s[1], s[2], Short(256 * High(s[3]) + High(s[2]))>>
SampleCount == 100
Sums(s) == [a \in 1..3 |-> SampleCount * AdxlRead(s)[a]]
\* C's division rounds to zero
Quotient(n, d) == IF n < 0 THEN -((-n) \div d) ELSE n \div d
OneG == 256
AdxlCalibrate(s) ==
  LET mean == [a \in 1..3 |-> Quotient(Short(Sums(s)[a]), SampleCount)]
  IN <<mean[1], mean[2], Short(mean[3] - OneG)>>
ApplyCalibration(data, o) == [a \in 1..3 |-> Short(data[a] - o[a])]

Calibrate(s) ==
  /\ DeviceCall /\ zeroed' = [at |-> s, by |-> AdxlCalibrate(s)]
  /\ UNCHANGED <<mouseVars, keyVars, usb, pagingVars>>

-----------------------------------------------------------------------------
(* Page tables *)

Absent == [physical |-> 0, flags |-> "none"]
StaleEntry == [physical |-> 0, flags |-> "stale"]
NoTable == [i \in 0..(TableEntries - 1) |-> Absent]
NoFrame == -1
Pages == 0..(TableEntries * DirectoryEntries - 1)

TableCleared_Never(tables, f) == tables
\* The memset of a table that is new
TableCleared(tables, f) == [tables EXCEPT ![f] = NoTable]

\* pmm_alloc_frame: frame 0 when there is none, which the caller takes as any other;
\* which of the others it is does not matter
FrameFor(p) == IF p.left = {} THEN 0 ELSE Min(p.left)

\* One turn of the loop of vmm_map
MapPage(p, page, physical, flags) ==
  LET d == page \div TableEntries
      known == p.directory[d] # NoFrame
      f == IF known THEN p.directory[d] ELSE FrameFor(p)
      tables == IF known THEN p.tables ELSE TableCleared(p.tables, f)
      entry == [physical |-> physical, flags |-> flags]
  IN [directory |-> [p.directory EXCEPT ![d] = f],
      tables |-> [tables EXCEPT ![f] = [tables[f] EXCEPT ![page % TableEntries] = entry]],
      left |-> IF known THEN p.left ELSE p.left \ {f}]

VmmMap(p, first, n, flags) ==
  LET mapped[i \in 0..n] ==
        IF i = 0 THEN p ELSE MapPage(mapped[i - 1], first + i - 1, i - 1, flags)
  IN mapped[n]

\* Where the kernel and the programs see the frame buffer
UserPage == 0
KernelPage == TableEntries * (DirectoryEntries - 1)

MapFrameBuffer(first, n, flags) ==
  /\ DeviceCall /\ first + n - 1 \in Pages
  /\ paging' = VmmMap(paging, first, n, flags)
  /\ asked' = [g \in Pages |-> IF g \in first..(first + n - 1)
                                THEN [physical |-> g - first, flags |-> flags] ELSE asked[g]]
  /\ UNCHANGED <<mouseVars, keyVars, usb, zeroed>>
\* vfs_register_fb0 and fb_user_mmap, whose length 0 means all of it
VfsRegisterFb0 == MapFrameBuffer(KernelPage, FrameBufferPages, "kernel")
FbUserMmap(n) == MapFrameBuffer(UserPage, IF n = 0 THEN FrameBufferPages ELSE n, "user")

-----------------------------------------------------------------------------
DevicesInit ==
  /\ mouse = [cycle |-> 0, byte |-> <<>>, x |-> 0, y |-> 0] /\ reported = <<>>
  /\ moved = [x |-> 0, y |-> 0, wideX |-> 0, wideY |-> 0]
  /\ down = {} /\ modifiers = {}
  /\ usb = [next |-> 1, table |-> <<>>, attached |-> {}]
  /\ zeroed = [at |-> <<0, 0, OneG>>, by |-> <<0, 0, 0>>]
  /\ paging = [directory |-> [d \in 0..(DirectoryEntries - 1) |-> NoFrame],
               tables |-> [f \in TableFrames \union {0} |-> [i \in 0..(TableEntries - 1) |-> StaleEntry]],
               left |-> TableFrames]
  /\ asked = [g \in Pages |-> Absent]
  /\ deviceCalls = 0

MouseNext == (\E dx, dy \in Moves : MouseMoves(dx, dy)) \/ MouseHandler
KeysNext == \E key \in Keys : Press(key) \/ Release(key)
UsbNext == \E port \in 0..1, connected \in BOOLEAN : UsbPortStatusChanged(port, connected)
SensorNext == \E s \in Samples : Calibrate(s)
PagingNext == VfsRegisterFb0 \/ \E n \in 0..(2 * TableEntries) : FbUserMmap(n)
DevicesNext == MouseNext \/ KeysNext \/ UsbNext \/ SensorNext \/ PagingNext
DevicesSpec == DevicesInit /\ [][DevicesNext]_devicesVars

-----------------------------------------------------------------------------
\* The pointer is where the reports led, once each is complete, but for 256 to the
\* other side for each move of more than 127 (mouse_handler).
PointerFollows ==
  mouse.x = moved.x - 256 * moved.wideX /\ mouse.y = moved.y + 256 * moved.wideY
\* No modifier stays behind when every key is up, in whatever order the two shifts
\* and the two ctrls went down and up (vt_kbd_process_scancode).
NoModifierSticks == down = {} => modifiers = {}
\* A sensor at rest reads one g straight down after a calibration whose sums fit
\* into a short (adxl345_calibrate, adxl345_apply_calibration).
RestIsRest ==
  (\A a \in 1..3 : Short(Sums(zeroed.at)[a]) = Sums(zeroed.at)[a]) /\ zeroed.by # <<0, 0, 0>> =>
    ApplyCalibration(AdxlRead(zeroed.at), zeroed.by) = <<0, 0, OneG>>
\* What vmm_map was asked for is what the tables say, page by page, and the rest of
\* the pages of a new table are absent, as long as there is a frame for each table.
EntryOf(g) == LET f == paging.directory[g \div TableEntries] IN
  IF f = NoFrame THEN Absent ELSE paging.tables[f][g % TableEntries]
PagesTranslate ==
  (\A d \in DOMAIN paging.directory : paging.directory[d] # 0) => \A g \in Pages : EntryOf(g) = asked[g]
AddressesInTable == Len(usb.table) = usb.next - 1 /\ usb.next <= MAX_USB_DEVICES
\* The small drivers follow what happened outside: moves, keys, ports, rest, and the
\* mappings asked for, through the reports, repeats and failures on the way.
DevicesSound == PointerFollows /\ NoModifierSticks /\ RestIsRest /\ PagesTranslate /\ AddressesInTable
=============================================================================
