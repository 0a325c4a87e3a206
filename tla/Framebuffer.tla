---------------------------- MODULE Framebuffer -----------------------------
(***************************************************************************)
(* The linear frame buffer and its device (drivers/video/fb.c): pixels in  *)
(* one array, drawn by rectangle, glyph and scroll, and what a program     *)
(* gets from ioctl and mmap.  Glyphs are GlyphSize pixels square.          *)
(***************************************************************************)
EXTENDS Integers, Sequences, FiniteSets

CONSTANTS
  FbSizes,    \* <<width, height>> that the boot loader may report
  GlyphSize,  \* 8
  Glyphs,     \* character |-> set of <<x, y>> of its set bits
  PageBytes,  \* 4096
  UINT_RANGE, \* 2^32: a uint32_t counts modulo this
  MaxDraws    \* bound: drawing calls in a run

ASSUME FramebufferAssumption ==
  /\ GlyphSize \in Nat \ {0} /\ PageBytes \in Nat \ {0} /\ UINT_RANGE \in Nat \ {0} /\ MaxDraws \in Nat
  /\ \A s \in FbSizes : s[1] \in Nat \ {0} /\ s[2] \in Nat \ {0}
  /\ \A c \in DOMAIN Glyphs : Glyphs[c] \subseteq (0..(GlyphSize - 1)) \X (0..(GlyphSize - 1))

VARIABLES
  global_fb, \* [width, height, pitch], zero before fb_init
  pixels,    \* index |-> colour; the array does not end where the screen does
  picture,   \* history: <<x, y>> |-> colour that was meant to be there
  draws,
  fbReply    \* what the last ioctl, read or mmap gave, or Overrun

fbVars == <<global_fb, pixels, picture, draws, fbReply>>

Background == 0
Foreign == 99   \* what lies behind the screen in memory
Colors == {1, 2}
NoReply == [call |-> "none"]
Overrun == [call |-> "overrun"]

FbInit ==
  /\ global_fb = [width |-> 0, height |-> 0, pitch |-> 0]
  /\ pixels = <<>> /\ picture = <<>> /\ draws = 0 /\ fbReply = NoReply

Points == (0..(global_fb.width - 1)) \X (0..(global_fb.height - 1))
Index(x, y) == y * global_fb.width + x

\* fb_init: true colour, four bytes for a pixel
FbRegister(w, h) ==
  /\ global_fb.width = 0
  /\ global_fb' = [width |-> w, height |-> h, pitch |-> w * 4]
  /\ pixels' = [i \in 0..(w * h - 1) |-> Background]
  /\ picture' = [p \in (0..(w - 1)) \X (0..(h - 1)) |-> Background]
  /\ UNCHANGED <<draws, fbReply>>

\* The pixels of a shape at (x0, y0) that are on the screen, as indices
Visible_RowOnly(shape, x0, y0) ==
  { Index(x0 + p[1], y0 + p[2]) : p \in { q \in shape : y0 + q[2] < global_fb.height } }

Visible(shape, x0, y0) ==
  { Index(x0 + p[1], y0 + p[2]) :
      p \in { q \in shape : x0 + q[1] < global_fb.width /\ y0 + q[2] < global_fb.height } }

Draw(shapes, color) == \* shapes: set of [shape, x, y]
  /\ global_fb.width > 0 /\ draws < MaxDraws
  /\ draws' = draws + 1
  /\ LET hit == UNION { Visible(s.shape, s.x, s.y) : s \in shapes } IN
     pixels' = [i \in DOMAIN pixels \union hit |-> IF i \in hit THEN color ELSE pixels[i]]
  /\ picture' = [p \in DOMAIN picture |->
                   IF \E s \in shapes : <<p[1] - s.x, p[2] - s.y>> \in s.shape
                   THEN color ELSE picture[p]]
  /\ UNCHANGED <<global_fb, fbReply>>

FbDrawRect(x, y, w, h, color) ==
  Draw({[shape |-> (0..(w - 1)) \X (0..(h - 1)), x |-> x, y |-> y]}, color)

\* fb_draw_char and fb_puts: only the set bits, one glyph behind the other
FbPuts(x, y, str, color) ==
  Draw({ [shape |-> Glyphs[str[k]], x |-> x + (k - 1) * GlyphSize, y |-> y] : k \in DOMAIN str }, color)

\* fb_scroll_up.  By more than the height the count of pixels to copy is negative,
\* and as an unsigned number so large that the copy goes over all memory
FbScrollUp(n, bg) ==
  /\ global_fb.width > 0 /\ draws < MaxDraws
  /\ draws' = draws + 1
  /\ LET size == global_fb.width * (global_fb.height - n)  offset == global_fb.width * n IN
     \/ /\ n <= global_fb.height
        /\ pixels' = [i \in DOMAIN pixels |-> IF i < size THEN pixels[i + offset] ELSE bg]
        /\ UNCHANGED fbReply
     \/ /\ n > global_fb.height
        /\ pixels' = [i \in 0..((size % UINT_RANGE) - 1) |->
                        IF i + offset \in DOMAIN pixels THEN pixels[i + offset] ELSE Foreign]
        /\ fbReply' = Overrun
  /\ picture' = [p \in DOMAIN picture |->
                   IF p[2] + n < global_fb.height THEN picture[<<p[1], p[2] + n>>] ELSE bg]
  /\ UNCHANGED global_fb

\* fb_test_pattern: six bars, the last one wider; a screen of less than six
\* columns is a division by zero
Bars == 6
FbTestPattern ==
  /\ global_fb.width >= Bars /\ draws < MaxDraws
  /\ draws' = draws + 1
  /\ LET bar(x) == LET b == x \div (global_fb.width \div Bars) IN IF b >= Bars THEN Bars - 1 ELSE b IN
     /\ pixels' = [i \in DOMAIN pixels |-> 10 + bar(i % global_fb.width)]
     /\ picture' = [p \in DOMAIN picture |-> 10 + bar(p[1])]
  /\ UNCHANGED <<global_fb, fbReply>>

\* fb_user_ioctl, fb_user_mmap (a length of 0 is the whole screen, rounded up to
\* pages), and fb_user_illegal
RoundUp(n) == ((n + PageBytes - 1) \div PageBytes) * PageBytes
FbUser(length) ==
  /\ global_fb.width > 0
  /\ fbReply' \in
       { [call |-> "FBIOGET_FSCREENINFO", smem_len |-> global_fb.height * global_fb.pitch,
          line_length |-> global_fb.pitch],
         [call |-> "FBIOGET_VSCREENINFO", xres |-> global_fb.width, yres |-> global_fb.height],
         [call |-> "FBIOPUT_VSCREENINFO", result |-> 0],
         [call |-> "other_ioctl", result |-> "ENOTTY"],
         [call |-> "read_or_write", result |-> "EINVAL"],
         [call |-> "mmap", length |-> length,
          mapped |-> RoundUp(IF length = 0 THEN global_fb.height * global_fb.pitch ELSE length)] }
  /\ UNCHANGED <<global_fb, pixels, picture, draws>>

\* A reply ends a run (a bound), and so does a copy over all memory
FbNext ==
  /\ fbReply = NoReply
  /\ \/ \E s \in FbSizes : FbRegister(s[1], s[2])
     \/ \E x, y \in 0..3, w, h \in {1, 2}, c \in Colors : FbDrawRect(x, y, w, h, c)
     \/ \E x, y \in {0, 1, 3}, a, b \in DOMAIN Glyphs : FbPuts(x, y, <<a, b>>, 1)
     \/ \E n \in 0..3 : FbScrollUp(n, Background)
     \/ FbTestPattern
     \/ draws = 0 /\ \E l \in {0, 1, PageBytes} : FbUser(l)

FbSpec == FbInit /\ [][FbNext]_fbVars

-----------------------------------------------------------------------------
\* The array is the picture, pixel for pixel, and nothing outside of it was
\* written: a shape that hangs over an edge is cut there and does not come back
\* on the next line (a scroll by more than the height excepted); a program that
\* maps the screen maps all of it and less than a page more.
PixelsArePicture ==
  /\ fbReply /= Overrun =>
       /\ DOMAIN pixels = { Index(p[1], p[2]) : p \in DOMAIN picture }
       /\ \A p \in DOMAIN picture : pixels[Index(p[1], p[2])] = picture[p]
  /\ fbReply.call = "mmap" =>
       LET asked == IF fbReply.length = 0 THEN Cardinality(Points) * 4 ELSE fbReply.length
       IN fbReply.mapped >= asked /\ fbReply.mapped - asked < PageBytes
=============================================================================
