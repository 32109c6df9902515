---------------------------- MODULE PixelFormats ----------------------------
(***************************************************************************)
(* The colours of the test pictures of src/mpp/encode/utils.cpp: the       *)
(* moving colour bar of get_rgb_color and the twelve functions that store  *)
(* a colour as a pixel.  A pixel is the sequence of its bytes, a colour a  *)
(* record of three bytes.                                                  *)
(***************************************************************************)
EXTENDS MppCommon, Sequences, SequencesExt

(* The values of f, and of g where f has none.                             *)
f ++ g == [x \in DOMAIN f \cup DOMAIN g |-> IF x \in DOMAIN f THEN f[x] ELSE g[x]]

-----------------------------------------------------------------------------
(* The numbers of the formats: a colour family, a place in it, and a bit   *)
(* for the compressed ones.                                                *)

MPP_FRAME_FMT_YUV     == 0
MPP_FRAME_FMT_RGB     == 2^16
MPP_FRAME_FBC_AFBC_V1 == 2^20

YuvFormats == <<"YUV420SP", "YUV420SP_10BIT", "YUV422SP", "YUV422SP_10BIT", "YUV420P",
                "YUV420SP_VU", "YUV422P", "YUV422SP_VU", "YUV422_YUYV", "YUV422_YVYU",
                "YUV422_UYVY", "YUV422_VYUY", "YUV400", "YUV440SP", "YUV411SP", "YUV444SP">>
RgbFormats == <<"RGB565", "BGR565", "RGB555", "BGR555", "RGB444", "BGR444", "RGB888", "BGR888",
                "RGB101010", "BGR101010", "ARGB8888", "ABGR8888", "BGRA8888", "RGBA8888">>

Numbered(base, names) ==
    [f \in Range(names) |-> base + (CHOOSE i \in DOMAIN names : names[i] = f) - 1]
Plain == Numbered(MPP_FRAME_FMT_YUV, YuvFormats) ++ Numbered(MPP_FRAME_FMT_RGB, RgbFormats)

(* The enum names one compressed format, and gives BUTT the number of the  *)
(* next; the last two it has no names for.                                 *)
MppFrameFormat ==
    LET compressed(fmt) == MPP_FRAME_FBC_AFBC_V1 + Plain[fmt]
    IN  Plain ++ [FBC          |-> compressed("YUV420SP"), BUTT       |-> compressed("YUV420SP") + 1,
                  FBC_YUV422SP |-> compressed("YUV422SP"), FBC_YUV400 |-> compressed("YUV400")]

MPP_FRAME_FMT_MASK(fmt)   == fmt % 2^20                \* fmt & the mask
MPP_FRAME_FMT_IS_FBC(fmt) == (fmt \div 2^20) % 2^4 # 0

(* The format a file's extension tells; "fbc" tells BUTT.                  *)
map_ext_to_frm_fmt ==
    [yuv420p    |-> "YUV420P",     yuv420sp   |-> "YUV420SP",
     yuv422p    |-> "YUV422P",     yuv422sp   |-> "YUV422SP",
     yuv422uyvy |-> "YUV422_UYVY", yuv422vyuy |-> "YUV422_VYUY",
     yuv422yuyv |-> "YUV422_YUYV", yuv422yvyu |-> "YUV422_YVYU",
     abgr8888   |-> "ABGR8888",    argb8888   |-> "ARGB8888",
     bgr565     |-> "BGR565",      bgr888     |-> "BGR888",
     bgra8888   |-> "BGRA8888",    rgb565     |-> "RGB565",
     rgb888     |-> "RGB888",      rgba8888   |-> "RGBA8888",
     fbc        |-> "BUTT"]

(* An extension that is not known leaves the format as it is. *)
name_to_frame_format(ext, fmt) ==
    IF ext \in DOMAIN map_ext_to_frm_fmt THEN map_ext_to_frm_fmt[ext] ELSE fmt

-----------------------------------------------------------------------------
Colour(r, g, b) == [R |-> r, G |-> g, B |-> b]

(* Mutant: the colours are not clipped to a byte. *)
Unclipped(x, y, frm_cnt) ==
    LET Y  == RK_U8(x + y + frm_cnt * 3)
        dU == RK_U8(128 + (y \div 2) + frm_cnt * 2) - 128
        dV == RK_U8(64 + (x \div 2) + frm_cnt * 5) - 128
    IN  Colour(Y + (360 * dV) \div 256, Y - (88 * dU + 184 * dV) \div 256, Y + (455 * dU) \div 256)

(* Y, U and V are RK_U8; >> 8 of a negative number rounds down. *)
ColourBar(x, y, frm_cnt) ==
    LET Y  == RK_U8(x + y + frm_cnt * 3)
        dU == RK_U8(128 + (y \div 2) + frm_cnt * 2) - 128
        dV == RK_U8(64 + (x \div 2) + frm_cnt * 5) - 128
    IN  Colour(MPP_CLIP3(0, 255, Y + (360 * dV) \div 256),
               MPP_CLIP3(0, 255, Y - (88 * dU + 184 * dV) \div 256),
               MPP_CLIP3(0, 255, Y + (455 * dU) \div 256))

(* Three plain frames, then the bar. *)
get_rgb_color(x, y, frm_cnt) ==
    CASE frm_cnt = 0 -> Colour(255, 0, 0)
      [] frm_cnt = 1 -> Colour(0, 255, 0)
      [] frm_cnt = 2 -> Colour(0, 0, 255)
      [] OTHER       -> ColourBar(x, y, frm_cnt)

-----------------------------------------------------------------------------
(* Storing a pixel, as the code does it for a big-endian format.  The      *)
(* little-endian branches store the same bytes in reverse, but no call     *)
(* reaches them: see FrameFiles.                                           *)

Top(c, n) == c \div 2^(8 - n)            \* the n highest bits of a byte

Bytes2(val) == <<(val \div 2^8) % 256, val % 256>>
Bytes4(val) == <<(val \div 2^24) % 256, (val \div 2^16) % 256>> \o Bytes2(val)

fill_MPP_FMT_RGB565(c) == Bytes2(Top(c.R, 5) * 2^11 + Top(c.G, 6) * 2^5 + Top(c.B, 5))
fill_MPP_FMT_BGR565(c) == Bytes2(Top(c.R, 5) + Top(c.G, 6) * 2^5 + Top(c.B, 5) * 2^11)
fill_MPP_FMT_RGB555(c) == Bytes2(Top(c.R, 5) * 2^10 + Top(c.G, 5) * 2^5 + Top(c.B, 5))
fill_MPP_FMT_BGR555(c) == Bytes2(Top(c.R, 5) + Top(c.G, 5) * 2^5 + Top(c.B, 5) * 2^10)
fill_MPP_FMT_RGB444(c) == Bytes2(Top(c.R, 4) * 2^8 + Top(c.G, 4) * 2^4 + Top(c.B, 4))
fill_MPP_FMT_BGR444(c) == Bytes2(Top(c.R, 4) + Top(c.G, 4) * 2^4 + Top(c.B, 4) * 2^8)
fill_MPP_FMT_RGB101010(c) == Bytes4(c.R * 4 * 2^20 + c.G * 4 * 2^10 + c.B * 4)
fill_MPP_FMT_BGR101010(c) == Bytes4(c.R * 4 + c.G * 4 * 2^10 + c.B * 4 * 2^20)
fill_MPP_FMT_ARGB8888(c) == <<255, c.R, c.G, c.B>>
fill_MPP_FMT_ABGR8888(c) == <<255, c.B, c.G, c.R>>
fill_MPP_FMT_BGRA8888(c) == <<c.B, c.G, c.R, 255>>
fill_MPP_FMT_RGBA8888(c) == <<c.R, c.G, c.B, 255>>

Rgb16 == {"RGB565", "BGR565", "RGB555", "BGR555", "RGB444", "BGR444"}
Rgb32 == {"RGB101010", "BGR101010", "ARGB8888", "ABGR8888", "BGRA8888", "RGBA8888"}

(* The table of the functions, by place: it has NULL at 6 and 7, where the *)
(* 24-bit formats are, and fill_image keeps those out.                     *)
fill_rgb_funcs(i, c) ==
    CASE i = 0  -> fill_MPP_FMT_RGB565(c)
      [] i = 1  -> fill_MPP_FMT_BGR565(c)
      [] i = 2  -> fill_MPP_FMT_RGB555(c)
      [] i = 3  -> fill_MPP_FMT_BGR555(c)
      [] i = 4  -> fill_MPP_FMT_RGB444(c)
      [] i = 5  -> fill_MPP_FMT_BGR444(c)
      [] i = 8  -> fill_MPP_FMT_RGB101010(c)
      [] i = 9  -> fill_MPP_FMT_BGR101010(c)
      [] i = 10 -> fill_MPP_FMT_ARGB8888(c)
      [] i = 11 -> fill_MPP_FMT_ABGR8888(c)
      [] i = 12 -> fill_MPP_FMT_BGRA8888(c)
      [] i = 13 -> fill_MPP_FMT_RGBA8888(c)

-----------------------------------------------------------------------------
(* The reference: the layouts the comments of the functions draw: at which *)
(* bit from the most significant one on a colour begins, and how many bits *)
(* it has.                                                                 *)

Layout == [RGB565    |-> [R |-> <<0, 5>>,  G |-> <<5, 6>>,   B |-> <<11, 5>>],
           BGR565    |-> [B |-> <<0, 5>>,  G |-> <<5, 6>>,   R |-> <<11, 5>>],
           RGB555    |-> [R |-> <<1, 5>>,  G |-> <<6, 5>>,   B |-> <<11, 5>>],
           BGR555    |-> [B |-> <<1, 5>>,  G |-> <<6, 5>>,   R |-> <<11, 5>>],
           RGB444    |-> [R |-> <<4, 4>>,  G |-> <<8, 4>>,   B |-> <<12, 4>>],
           BGR444    |-> [B |-> <<4, 4>>,  G |-> <<8, 4>>,   R |-> <<12, 4>>],
           RGB101010 |-> [R |-> <<2, 10>>, G |-> <<12, 10>>, B |-> <<22, 10>>],
           BGR101010 |-> [B |-> <<2, 10>>, G |-> <<12, 10>>, R |-> <<22, 10>>],
           ARGB8888  |-> [R |-> <<8, 8>>,  G |-> <<16, 8>>,  B |-> <<24, 8>>],
           ABGR8888  |-> [B |-> <<8, 8>>,  G |-> <<16, 8>>,  R |-> <<24, 8>>],
           BGRA8888  |-> [B |-> <<0, 8>>,  G |-> <<8, 8>>,   R |-> <<16, 8>>],
           RGBA8888  |-> [R |-> <<0, 8>>,  G |-> <<8, 8>>,   B |-> <<16, 8>>]]

(* Bit k of a pixel, and of a number of n bits.                            *)
Bit(pixel, k)    == (pixel[k \div 8 + 1] \div 2^(7 - (k % 8))) % 2
BitOf(num, n, k) == (num \div 2^(n - 1 - k)) % 2

(* A colour in n bits: cut to the n highest, or scaled up. *)
Scaled(c, n) == IF n <= 8 THEN Top(c, n) ELSE c * 2^(n - 8)

Shows(fmt, pixel, c) ==
    \A colour \in {"R", "G", "B"} :
        LET from == Layout[fmt][colour][1]
            n    == Layout[fmt][colour][2]
        IN  \A k \in 0..n - 1 : Bit(pixel, from + k) = BitOf(Scaled(c[colour], n), n, k)
=============================================================================
