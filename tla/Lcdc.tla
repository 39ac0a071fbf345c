-------------------------------- MODULE Lcdc --------------------------------
(***************************************************************************)
(* DevLCDC, the display controller: registers written by the guest, and a  *)
(* periodic callback of the main loop that converts the framebuffer into   *)
(* the window's pixels.  The framebuffer's contents are symbols: a pixel   *)
(* is the place of its bits, so one run stands for all pictures.           *)
(***************************************************************************)
EXTENDS Integers

CONSTANTS
  Width, Height,   \* of the window (DISP_WIDTH, DISP_HEIGHT)
  WordBits,        \* the framebuffer is fetched in words of 32 bits
  Depths,          \* values of 1 << BPP the guest may set
  ScalesX, ScalesY,
  FbBases,         \* values of FB_BASE the guest may set
  Colours, PalIdx

\* write32 to DSIZE adds 1 to the multiplier that it is given.
ASSUME LcdcAssumption ==
  /\ WordBits = 32 /\ Width \in Nat \ {0} /\ Height \in Nat \ {0}
  /\ ScalesX \subseteq Nat \ {0} /\ ScalesY \subseteq Nat \ {0}

VARIABLES
  lcdc,      \* display_enable, scale_x, scale_y, bpp, FB_BASE and PAL_IDX
  palette,
  screen     \* the window's surface: what each pixel shows

lcdcVars == <<lcdc, palette, screen>>

Pixel == (0 .. Width - 1) \X (0 .. Height - 1)

\* What a framebuffer pixel shows: the bits from `bit` on of a word.
Shows(word, bit, depth) == [word |-> word, bit |-> bit, depth |-> depth]
Blue  == [word |-> -1, bit |-> 0, depth |-> 0]
Blank == [word |-> -2, bit |-> 0, depth |-> 0]

Supported(depth) == depth \in {1, 2, 4, 8, 16, 32}

(* The loop common to copyLine32bpp, copyLine16bpp and copyLineIndexed: a  *)
(* word is fetched when the last one is used up, and shifted by one pixel  *)
(* at a time.  `in` is the next word to fetch.                             *)
LineState(depth, width, in0) ==
  LET s[x \in 0 .. width] ==
        IF x = 0 THEN [in |-> in0, pcount |-> 0, shift |-> 0]
        ELSE LET p == s[x - 1] IN
             IF p.pcount = 0
             THEN [in |-> p.in + 1, pcount |-> WordBits \div depth - 1, shift |-> 0]
             ELSE [in |-> p.in, pcount |-> p.pcount - 1, shift |-> p.shift + depth]
  IN s

\* Mutant of WordsPerLine: the next line continues in the last word.
WordsPerLineTruncated(depth, width) == (width * depth) \div WordBits

\* How far a line moves the source pointer on; a blue line does not.
WordsPerLine(depth, width) ==
  IF Supported(depth) THEN LineState(depth, width, 0)[width].in ELSE 0

\* transformFramebuffer: each source line written once and copied scale_y - 1 times
Transformed ==
  LET w == Width \div lcdc.sx
      h == Height \div lcdc.sy
      line == LineState(lcdc.bpp, w, 0)
      Source(x, y) == LET s == line[x + 1] IN
        Shows(y * WordsPerLine(lcdc.bpp, w) + s.in - 1, s.shift, lcdc.bpp)
  IN [p \in Pixel |->
        IF p[2] >= h * lcdc.sy THEN screen[p]
        ELSE IF ~Supported(lcdc.bpp) THEN Blue
        ELSE IF p[1] < w * lcdc.sx THEN Source(p[1] \div lcdc.sx, p[2] \div lcdc.sy)
        ELSE screen[<<p[1], p[2] - (p[2] % lcdc.sy)>>]]
-----------------------------------------------------------------------------
(* write32 *)

SetCtrl(en) == lcdc' = [lcdc EXCEPT !.en = en] /\ UNCHANGED <<palette, screen>>

SetDsize(sx, sy) ==
  lcdc' = [lcdc EXCEPT !.sx = sx, !.sy = sy] /\ UNCHANGED <<palette, screen>>

SetFbBase(a) == lcdc' = [lcdc EXCEPT !.base = a] /\ UNCHANGED <<palette, screen>>

SetBpp(depth) == lcdc' = [lcdc EXCEPT !.bpp = depth] /\ UNCHANGED <<palette, screen>>

SetPalIdx(i) == lcdc' = [lcdc EXCEPT !.pidx = i] /\ UNCHANGED <<palette, screen>>

SetPalEntry(c) == palette' = [palette EXCEPT ![lcdc.pidx] = c] /\ UNCHANGED <<lcdc, screen>>

LcdcWrite ==
  \/ \E en \in BOOLEAN : SetCtrl(en)
  \/ \E sx \in ScalesX, sy \in ScalesY : SetDsize(sx, sy)
  \/ \E a \in FbBases : SetFbBase(a)
  \/ \E d \in Depths : SetBpp(d)
  \/ \E i \in PalIdx : SetPalIdx(i)
  \/ \E c \in Colours : SetPalEntry(c)

\* periodic with the display on, once FB_BASE has been looked up on the bus
Refresh ==
  /\ lcdc.en
  /\ screen' = Transformed
  /\ UNCHANGED <<lcdc, palette>>

LcdcInit ==
  /\ lcdc = [en |-> FALSE, sx |-> 1, sy |-> 1, bpp |-> 0, base |-> 0, pidx |-> 0]
  /\ palette = [i \in PalIdx |-> 0]
  /\ screen = [p \in Pixel |-> Blank]
-----------------------------------------------------------------------------
(* What the comment in transformFramebuffer promises ("ps is the source    *)
(* framebuffer: display_x/scale_x by display_y/scale_y"): every window     *)
(* pixel shows the framebuffer pixel it is a copy of, lines begin at a     *)
(* word of their own, at every depth and scale.                            *)
ShowsTheFramebuffer ==
  [][screen' # screen /\ Supported(lcdc.bpp) =>
       \A x \in 0 .. Width \div lcdc.sx - 1, y \in 0 .. Height \div lcdc.sy - 1 :
         LET line  == y * (((Width \div lcdc.sx) * lcdc.bpp + WordBits - 1) \div WordBits)
             pixel == Shows(line + (x * lcdc.bpp) \div WordBits, (x * lcdc.bpp) % WordBits, lcdc.bpp)
         IN  \A i \in 0 .. lcdc.sx - 1, j \in 0 .. lcdc.sy - 1 :
               screen'[<<x * lcdc.sx + i, y * lcdc.sy + j>>] = pixel]_lcdcVars
=============================================================================
